---- MODULE Spec2Model ----
(***************************************************************************)
(* A model of babelgen (src/index.ts): the node classes, the generator     *)
(* protocol by which a producer hands nodes to the driver that renders it, *)
(* and the two backends, toString (text) and toBabelAST (tree).            *)
(*                                                                         *)
(* A JavaScript value is a record tagged by `kind`: the class name for a   *)
(* node, the `typeof` name for a raw value.  A text is a sequence of       *)
(* tokens, the pieces the source's template strings concatenate; a newline *)
(* is always the token "\n" of its own, so split("\n") is a split at those *)
(* tokens.  A text result is [err, t]: err is TRUE when the evaluation     *)
(* threw, and concatenation propagates the first throw from the left, as   *)
(* JavaScript's left-to-right evaluation does.                             *)
(***************************************************************************)
EXTENDS Integers, Sequences, FiniteSets, TLC

VARIABLES
  root,     \* the program under render: a node, or a CodeGen / CodeGenAST wrapper
  stack,    \* the toString / toBabelAST / run calls under way, innermost last
  results   \* what the render calls made so far returned or raised

vars == <<root, stack, results>>

\* the render calls made on the program under render
MaxCalls == 2
\* the statements of a generator function drawn for the program under render
MaxStmts == 2

----------------------------------------------------------------------------
(* Raw JavaScript values *)

Undefined == [kind |-> "undefined"]
RawNumber(n) == [kind |-> "number", num |-> n]
RawString(s) == [kind |-> "string", str |-> s]
RawBoolean(b) == [kind |-> "boolean", bool |-> b]
RawFunction == [kind |-> "function"]
RawSymbol == [kind |-> "symbol"]
RawObject(entries) == [kind |-> "object", entries |-> entries]
RawArray(items) == [kind |-> "array", items |-> items]
Entry(key, value) == [key |-> key, value |-> value]

\* The property keys of the programs drawn that are integer indices, in
\* ascending order: an object enumerates its own properties, as Object.entries
\* and JSON.stringify do, with its integer keys first in ascending order and
\* its other keys after them in the order they were inserted.
IndexKeys == <<"0", "1", "2", "3">>
IsIndexKey(key) == \E i \in 1..Len(IndexKeys) : IndexKeys[i] = key

RECURSIVE IndexProperties(_, _)
IndexProperties(entries, i) ==
  IF i > Len(IndexKeys) THEN <<>>
  ELSE SelectSeq(entries, LAMBDA e : e.key = IndexKeys[i]) \o IndexProperties(entries, i + 1)

\* entries: the properties in the order they were inserted
OwnProperties(entries) ==
  IndexProperties(entries, 1) \o SelectSeq(entries, LAMBDA e : ~IsIndexKey(e.key))

(* Types: the BaseType classes *)

PrimitiveType(name) == [kind |-> "PrimitiveType", name |-> name]
VariableType(name) == [kind |-> "VariableType", name |-> name]
GenericType(name, args) == [kind |-> "GenericType", name |-> name, args |-> args]
ObjectType(properties) == [kind |-> "ObjectType", properties |-> properties]
ArrayType(elementType) == [kind |-> "ArrayType", elementType |-> elementType]
FunctionType(params, returnType) ==
  [kind |-> "FunctionType", params |-> params, returnType |-> returnType]
UnionType(types) == [kind |-> "UnionType", types |-> types]
IntersectionType(types) == [kind |-> "IntersectionType", types |-> types]

TypeKinds ==
  {"PrimitiveType", "VariableType", "GenericType", "ObjectType", "ArrayType",
   "FunctionType", "UnionType", "IntersectionType"}

IsBaseType(v) == v.kind \in TypeKinds

(* Nodes: the BaseExpr classes *)

VarRef(name, type) == [kind |-> "VarRef", name |-> name, type |-> type]
\* (a literal's value is held as the raw value it is)
NumberExpr(value, type) == [kind |-> "NumberExpr", value |-> RawNumber(value), type |-> type]
StringExpr(value, type) == [kind |-> "StringExpr", value |-> RawString(value), type |-> type]
BoolExpr(value, type) == [kind |-> "BoolExpr", value |-> RawBoolean(value), type |-> type]
LetExpr(name, value, type) ==
  [kind |-> "LetExpr", name |-> name, value |-> value, type |-> type]
IfExpr(condition, thenBranch, elseBranch) ==
  [kind |-> "IfExpr", condition |-> condition, thenBranch |-> thenBranch,
   elseBranch |-> elseBranch]
ForExpr(init, variable, iterable, body, type) ==
  [kind |-> "ForExpr", init |-> init, variable |-> variable, iterable |-> iterable,
   body |-> body, type |-> type]
WhileExpr(condition, body) ==
  [kind |-> "WhileExpr", condition |-> condition, body |-> body]
BlockExpr(block) == [kind |-> "BlockExpr", block |-> block]
ObjectExpr(properties, type) ==
  [kind |-> "ObjectExpr", properties |-> properties, type |-> type]
ArrayExpr(elements, type) == [kind |-> "ArrayExpr", elements |-> elements, type |-> type]
FunctionExpr(params, body, returnType, typeParams) ==
  [kind |-> "FunctionExpr", params |-> params, body |-> body,
   returnType |-> returnType, typeParams |-> typeParams]
Param(name, type) == [name |-> name, type |-> type]
TypeAliasExpr(name, type, typeParams) ==
  [kind |-> "TypeAliasExpr", name |-> name, type |-> type, typeParams |-> typeParams]
InterfaceExpr(name, properties, typeParams) ==
  [kind |-> "InterfaceExpr", name |-> name, properties |-> properties,
   typeParams |-> typeParams]
FunctionCallExpr(functionRef, args) ==
  [kind |-> "FunctionCallExpr", functionRef |-> functionRef, args |-> args]
MethodCallExpr(object, method, args) ==
  [kind |-> "MethodCallExpr", object |-> object, method |-> method, args |-> args]
RawExpr(code) == [kind |-> "RawExpr", code |-> code]
NumericBinaryOpExpr(left, operator, right) ==
  [kind |-> "NumericBinaryOpExpr", left |-> left, operator |-> operator, right |-> right]
LogicalBinaryOpExpr(left, operator, right) ==
  [kind |-> "LogicalBinaryOpExpr", left |-> left, operator |-> operator, right |-> right]
UnaryOpExpr(operator, operand, prefix) ==
  [kind |-> "UnaryOpExpr", operator |-> operator, operand |-> operand, prefix |-> prefix]
PropertyAccessExpr(object, property, computed) ==
  [kind |-> "PropertyAccessExpr", object |-> object, property |-> property,
   computed |-> computed]
TemplateLiteralExpr(parts, expressions) ==
  [kind |-> "TemplateLiteralExpr", parts |-> parts, expressions |-> expressions]

NodeKinds ==
  {"VarRef", "NumberExpr", "StringExpr", "BoolExpr", "LetExpr", "IfExpr", "ForExpr",
   "WhileExpr", "BlockExpr", "ObjectExpr", "ArrayExpr", "FunctionExpr",
   "TypeAliasExpr", "InterfaceExpr", "FunctionCallExpr", "MethodCallExpr", "RawExpr",
   "NumericBinaryOpExpr", "LogicalBinaryOpExpr", "UnaryOpExpr", "PropertyAccessExpr",
   "TemplateLiteralExpr"}

\* value instanceof BaseExpr
IsBaseExpr(v) == v.kind \in NodeKinds

(* A generator function, function* (param) { ...stmts; return ret }.  A     *)
(* statement is `yield* arg` or `yield arg`, its value bound to the const   *)
(* `bind` ("" when the value is dropped).  Ref(slot) inside arg or ret is a *)
(* use of the parameter or of a const bound by an earlier statement.        *)

GeneratorFunction(param, stmts, ret) == [param |-> param, stmts |-> stmts, ret |-> ret]
YieldStar(bind, arg) == [op |-> "yield*", bind |-> bind, arg |-> arg]
Yield(arg) == [op |-> "yield", bind |-> "", arg |-> arg]
Ref(slot) == [kind |-> "Ref", slot |-> slot]

----------------------------------------------------------------------------
(* Texts *)

TAB == <<"  ">>
NL == "\n"

T(tokens) == [err |-> FALSE, t |-> tokens]
Throw(message) == [err |-> TRUE, t |-> <<message>>]

\* a + b on strings: the left operand is evaluated first, and its throw wins
Cat(a, b) == IF a.err THEN a ELSE IF b.err THEN b ELSE T(a.t \o b.t)

RECURSIVE CatAll(_)
CatAll(texts) ==
  IF texts = <<>> THEN T(<<>>) ELSE Cat(CatAll(SubSeq(texts, 1, Len(texts) - 1)), texts[Len(texts)])

\* texts.join(sep): the first throw among the texts wins (map runs before join)
RECURSIVE Join(_, _)
Join(texts, sep) ==
  IF texts = <<>> THEN T(<<>>)
  ELSE IF Len(texts) = 1 THEN texts[1]
  ELSE Cat(Cat(Join(SubSeq(texts, 1, Len(texts) - 1), sep), T(sep)), texts[Len(texts)])

\* tokens.split("\n"): one more line than there are newline tokens
RECURSIVE Split(_)
Split(tokens) ==
  IF tokens = <<>> THEN << <<>> >>
  ELSE LET rest == Split(Tail(tokens))
       IN IF Head(tokens) = NL THEN << <<>> >> \o rest
          ELSE << <<Head(tokens)>> \o rest[1] >> \o Tail(rest)

\* the whole text as one string
RECURSIVE Flat(_)
Flat(tokens) == IF tokens = <<>> THEN "" ELSE Head(tokens) \o Flat(Tail(tokens))

BoolText(b) == IF b THEN "true" ELSE "false"

\* JSON.stringify(value), then its conversion to a string by + or a template: a
\* function, a symbol and undefined give undefined, which prints as "undefined";
\* inside an object such a property is left out, inside an array it is null.
RECURSIVE JSONstringify(_)
RECURSIVE JSONentries(_)
RECURSIVE JSONitems(_)
JSONstringify(value) ==
  CASE value.kind = "number" -> T(<<ToString(value.num)>>)
    [] value.kind = "string" -> T(<<"\"" \o value.str \o "\"">>)
    [] value.kind = "boolean" -> T(<<BoolText(value.bool)>>)
    [] value.kind = "object" -> CatAll(<<T(<<"{">>), Join(JSONentries(OwnProperties(value.entries)), <<",">>), T(<<"}">>)>>)
    [] value.kind = "array" -> CatAll(<<T(<<"[">>), Join(JSONitems(value.items), <<",">>), T(<<"]">>)>>)
    [] OTHER -> T(<<"undefined">>)

JSONentries(entries) ==
  IF entries = <<>> THEN <<>>
  ELSE LET e == Head(entries)
       IN (IF e.value.kind \in {"function", "symbol", "undefined"} THEN <<>>
           ELSE <<Cat(T(<<"\"" \o e.key \o "\"", ":">>), JSONstringify(e.value))>>)
          \o JSONentries(Tail(entries))

JSONitems(items) ==
  IF items = <<>> THEN <<>>
  ELSE <<IF Head(items).kind \in {"function", "symbol", "undefined"} THEN T(<<"null">>)
         ELSE JSONstringify(Head(items))>> \o JSONitems(Tail(items))

\* String(value) on a raw value
StringOf(value) ==
  CASE value.kind = "string" -> T(<<value.str>>)
    [] value.kind = "number" -> T(<<ToString(value.num)>>)
    [] value.kind = "boolean" -> T(<<BoolText(value.bool)>>)
    [] value.kind = "undefined" -> T(<<"undefined">>)
    [] value.kind = "object" -> T(<<"[object Object]">>)
    [] value.kind = "symbol" -> T(<<"Symbol()">>)
    [] value.kind = "function" -> T(<<"function () {}">>)

----------------------------------------------------------------------------
(* Types: toString *)

RECURSIVE TypeToString(_)
RECURSIVE TypesToString(_)
RECURSIVE ObjectTypeProperties(_)
TypesToString(types) ==
  IF types = <<>> THEN <<>> ELSE <<TypeToString(Head(types))>> \o TypesToString(Tail(types))

ObjectTypeProperties(properties) ==
  IF properties = <<>> THEN <<>>
  ELSE LET e == Head(properties)
       IN <<Cat(T(<<e.key, ": ">>),
                IF IsBaseType(e.value) THEN TypeToString(e.value) ELSE JSONstringify(e.value))>>
          \o ObjectTypeProperties(Tail(properties))

TypeToString(type) ==
  CASE type.kind = "PrimitiveType" -> T(<<type.name>>)
    [] type.kind = "VariableType" -> T(<<type.name>>)
    [] type.kind = "GenericType" ->
         IF Len(type.args) = 0 THEN T(<<type.name>>)
         ELSE CatAll(<<T(<<type.name, "<">>), Join(TypesToString(type.args), <<", ">>), T(<<">">>)>>)
    [] type.kind = "ObjectType" ->
         CatAll(<<T(<<"{ ">>), Join(ObjectTypeProperties(OwnProperties(type.properties)), <<"; ">>), T(<<" }">>)>>)
    [] type.kind = "ArrayType" -> Cat(TypeToString(type.elementType), T(<<"[]">>))
    [] type.kind = "FunctionType" ->
         CatAll(<<T(<<"(">>), Join(TypesToString(type.params), <<", ">>), T(<<") => ">>),
                  TypeToString(type.returnType)>>)
    [] type.kind = "UnionType" -> Join(TypesToString(type.types), <<" | ">>)
    [] type.kind = "IntersectionType" -> Join(TypesToString(type.types), <<" & ">>)

\* this.type ? `: ${this.type.toString()}` : ""
TypeAnnotation(type) ==
  IF type.kind = "undefined" THEN T(<<>>) ELSE Cat(T(<<": ">>), TypeToString(type))

----------------------------------------------------------------------------
(* Lexical scope: the consts a generator function's body sees.  An env maps *)
(* a slot to the value bound to it; Subst(value, env) is the value with the *)
(* uses of env's slots replaced, inside the nested generator functions too  *)
(* (their closures), except where they rebind the slot.                     *)

Binds(gen) == {gen.param} \cup {gen.stmts[i].bind : i \in 1..Len(gen.stmts)}
Without(env, slots) == [s \in (DOMAIN env \ slots) |-> env[s]]
Bind(env, slot, value) ==
  IF slot = "" THEN env ELSE [s \in (DOMAIN env \cup {slot}) |-> IF s = slot THEN value ELSE env[s]]
EmptyEnv == [s \in {} |-> Undefined]

RECURSIVE Subst(_, _)
RECURSIVE SubstAll(_, _)
RECURSIVE SubstEntries(_, _)
RECURSIVE SubstStmts(_, _)
SubstAll(values, env) ==
  IF values = <<>> THEN <<>> ELSE <<Subst(Head(values), env)>> \o SubstAll(Tail(values), env)

SubstEntries(entries, env) ==
  IF entries = <<>> THEN <<>>
  ELSE <<Entry(Head(entries).key, Subst(Head(entries).value, env))>> \o SubstEntries(Tail(entries), env)

SubstStmts(stmts, env) ==
  IF stmts = <<>> THEN <<>>
  ELSE <<[Head(stmts) EXCEPT !.arg = Subst(@, env)]>> \o SubstStmts(Tail(stmts), env)

SubstGen(gen, env) ==
  LET inner == Without(env, Binds(gen))
  IN [gen EXCEPT !.stmts = SubstStmts(@, inner), !.ret = Subst(@, inner)]

Subst(value, env) ==
  CASE value.kind = "Ref" -> IF value.slot \in DOMAIN env THEN env[value.slot] ELSE value
    [] value.kind = "object" -> [value EXCEPT !.entries = SubstEntries(@, env)]
    [] value.kind = "array" -> [value EXCEPT !.items = SubstAll(@, env)]
    [] value.kind = "LetExpr" -> [value EXCEPT !.value = Subst(@, env)]
    [] value.kind = "IfExpr" ->
         [value EXCEPT !.condition = Subst(@, env), !.thenBranch = Subst(@, env),
                       !.elseBranch = Subst(@, env)]
    [] value.kind = "ForExpr" ->
         [value EXCEPT !.init = Subst(@, env), !.iterable = Subst(@, env),
                       !.body = SubstGen(@, env)]
    [] value.kind = "WhileExpr" ->
         [value EXCEPT !.condition = Subst(@, env), !.body = SubstGen(@, env)]
    [] value.kind = "BlockExpr" -> [value EXCEPT !.block = SubstGen(@, env)]
    [] value.kind = "ObjectExpr" -> [value EXCEPT !.properties = SubstEntries(@, env)]
    [] value.kind = "ArrayExpr" -> [value EXCEPT !.elements = SubstAll(@, env)]
    [] value.kind = "FunctionExpr" ->
         [value EXCEPT !.body =
            SubstGen(@, Without(env, {value.params[i].name : i \in 1..Len(value.params)}))]
    [] value.kind = "FunctionCallExpr" ->
         [value EXCEPT !.functionRef = Subst(@, env), !.args = SubstAll(@, env)]
    [] value.kind = "MethodCallExpr" ->
         [value EXCEPT !.object = Subst(@, env), !.args = SubstAll(@, env)]
    [] value.kind \in {"NumericBinaryOpExpr", "LogicalBinaryOpExpr"} ->
         [value EXCEPT !.left = Subst(@, env), !.right = Subst(@, env)]
    [] value.kind = "UnaryOpExpr" -> [value EXCEPT !.operand = Subst(@, env)]
    [] value.kind = "PropertyAccessExpr" ->
         [value EXCEPT !.object = Subst(@, env), !.property = Subst(@, env)]
    [] value.kind = "TemplateLiteralExpr" -> [value EXCEPT !.expressions = SubstAll(@, env)]
    [] OTHER -> value

----------------------------------------------------------------------------
(* The protocol: [Symbol.iterator] of each class, and a producer's run *)

\* the classes that define [Symbol.iterator]; yield* on any other node is a TypeError
IterableKinds ==
  {"BlockExpr", "VarRef", "NumberExpr", "StringExpr", "BoolExpr", "LetExpr", "IfExpr",
   "ForExpr", "WhileExpr", "ObjectExpr", "ArrayExpr", "FunctionExpr", "TypeAliasExpr",
   "InterfaceExpr", "MethodCallExpr", "NumericBinaryOpExpr", "LogicalBinaryOpExpr",
   "PropertyAccessExpr"}

IsIterable(node) == node.kind \in IterableKinds

\* an iterator that hands nothing over before it completes
IterYieldsNothing(node) == <<>>

\* what the node's iterator hands over before it completes
IterYields(node) ==
  IF node.kind \in {"NumberExpr", "PropertyAccessExpr"} THEN <<>> ELSE <<node>>

\* LetExpr: return this.value
LetExprIterReturnValue(node) == node.value

\* LetExpr: return new VarRef(this.name, this.type)
LetExprIterReturn(node) == VarRef(node.name, node.type)

\* the completion value of the node's iterator, the value of `yield* node`
IterReturn(node) ==
  CASE node.kind = "LetExpr" -> LetExprIterReturn(node)
    [] node.kind = "NumberExpr" -> node
    [] node.kind = "NumericBinaryOpExpr" -> VarRef("result", PrimitiveType("number"))
    [] node.kind = "LogicalBinaryOpExpr" -> VarRef("result", PrimitiveType("boolean"))
    [] node.kind = "PropertyAccessExpr" -> VarRef("hi", PrimitiveType("any"))
    [] OTHER -> Undefined

\* a generator object kept from one render call to the next: once a call
\* has finished, the producer is found already exhausted
KeptGenerator(fn, env) ==
  [fn |-> fn, env |-> env, pc |-> IF Len(results) = 0 THEN 1 ELSE Len(fn.stmts) + 1,
   sub |-> 0, state |-> IF Len(results) = 0 THEN "suspendedStart" ELSE "completed",
   value |-> Undefined, log |-> <<>>]

\* The generator object gen(args) of a generator function fn: pc is the
\* statement it stands at, sub the number of values the iterator that the
\* yield* at pc delegates to has handed over (0 at a plain yield), value the
\* value handed over or, once completed, the completion value, and log what each
\* statement it has passed was given, handed over and evaluated to.
NewGenerator(fn, env) ==
  [fn |-> fn, env |-> env, pc |-> 1, sub |-> 0, state |-> "suspendedStart",
   value |-> Undefined, log |-> <<>>]

LogEntry(stmt, arg, yielded, result) ==
  [op |-> stmt.op, arg |-> arg, yielded |-> yielded, result |-> result]

\* the statement at pc has its value: bind it and move on
Complete(gen, arg, yielded, result) ==
  LET stmt == gen.fn.stmts[gen.pc]
  IN [gen EXCEPT !.pc = @ + 1, !.sub = 0, !.env = Bind(@, stmt.bind, result),
                 !.log = Append(@, LogEntry(stmt, arg, yielded, result))]

\* the statement at pc, its operand evaluated to arg: a yield hands arg over,
\* a yield* hands over what arg's iterator hands over and then completes
RECURSIVE GenRun(_)
GenStep(gen, arg) ==
  IF gen.fn.stmts[gen.pc].op = "yield"
  THEN [gen EXCEPT !.state = "suspendedYield", !.value = arg]
  ELSE IF ~IsIterable(arg)
  THEN [gen EXCEPT !.state = "threw", !.value = Undefined]
  ELSE IF gen.sub < Len(IterYields(arg))
  THEN [gen EXCEPT !.state = "suspendedYield", !.sub = @ + 1,
                   !.value = IterYields(arg)[gen.sub + 1]]
  ELSE GenRun(Complete(gen, arg, IterYields(arg), IterReturn(arg)))

\* the body runs on from pc to its next yield, its return or its throw
GenRun(gen) ==
  IF gen.pc > Len(gen.fn.stmts)
  THEN [gen EXCEPT !.state = "completed", !.value = Subst(gen.fn.ret, gen.env)]
  ELSE GenStep(gen, Subst(gen.fn.stmts[gen.pc].arg, gen.env))

\* gen.next()
GenNext(gen) ==
  IF gen.state = "suspendedStart" THEN GenRun(gen)
  ELSE IF gen.state = "suspendedYield"
  THEN IF gen.fn.stmts[gen.pc].op = "yield"
       THEN GenRun(Complete(gen, gen.value, <<gen.value>>, Undefined))
       ELSE GenRun(gen)
  ELSE gen

----------------------------------------------------------------------------
(* The text backend: toString *)

IsIfForWhile(e) == e.kind \in {"IfExpr", "ForExpr", "WhileExpr"}

\* The indent a body driver passes to a handed-over node's toString: the
\* driver's indent plus TAB for the nested statements it knows, and no
\* argument, hence the default "", for every other node.
BlockExprItemIndent(indent, e) == IF IsIfForWhile(e) THEN indent \o TAB ELSE <<>>
\* the loop's own indent is not passed down to a nested statement
ForExprItemNoIndent(indent, e) == <<>>

ForExprItemIndent(indent, e) == IF IsIfForWhile(e) THEN indent \o TAB ELSE <<>>
WhileExprItemIndent(indent, e) == IF IsIfForWhile(e) THEN indent \o TAB ELSE <<>>
FunctionExprItemIndent(e) == IF e.kind = "IfExpr" THEN TAB ELSE <<>>

RECURSIVE IndentLines(_, _)
IndentLines(prefix, lines) ==
  IF lines = <<>> THEN <<>> ELSE prefix \o Head(lines) \o <<NL>> \o IndentLines(prefix, Tail(lines))

\* What a body driver appends for the handed-over value e, given text, the
\* result of e.toString(...) when e is a node.
BlockExprItem(indent, e, text) ==
  IF IsIfForWhile(e) THEN CatAll(<<T(indent \o TAB), text, T(<<NL>>)>>)
  ELSE IF IsBaseExpr(e) THEN (IF text.err THEN text ELSE T(IndentLines(indent \o TAB, Split(text.t))))
  ELSE CatAll(<<T(indent \o TAB), JSONstringify(e), T(<<NL>>)>>)

\* a body line added at the loop's own indent
ForExprItemAtLoopIndent(indent, e, text) ==
  IF IsBaseExpr(e) THEN CatAll(<<T(indent), text, T(<<NL>>)>>)
  ELSE CatAll(<<T(indent), JSONstringify(e), T(<<NL>>)>>)

ForExprItem(indent, e, text) ==
  IF IsBaseExpr(e) THEN CatAll(<<T(indent \o TAB), text, T(<<NL>>)>>)
  ELSE CatAll(<<T(indent \o TAB), JSONstringify(e), T(<<NL>>)>>)

WhileExprItem(indent, e, text) ==
  IF IsBaseExpr(e) THEN CatAll(<<T(indent \o TAB), text, T(<<NL>>)>>)
  ELSE CatAll(<<T(indent \o TAB), JSONstringify(e), T(<<NL>>)>>)

FunctionExprItem(e, text) ==
  IF IsBaseExpr(e) THEN CatAll(<<T(TAB), text, T(<<NL>>)>>)
  ELSE CatAll(<<T(TAB), JSONstringify(e), T(<<NL>>)>>)

\* a function body that drops the completion value: no return line
FunctionExprNoReturn(value, text) == T(<<>>)

\* the return line of a function body, given text, the completion value's toString
FunctionExprReturn(value, text) ==
  IF value.kind = "undefined" THEN T(<<>>)
  ELSE IF IsBaseExpr(value) THEN CatAll(<<T(TAB \o <<"return ">>), text, T(<<";", NL>>)>>)
  ELSE CatAll(<<T(TAB \o <<"return ">>), JSONstringify(value), T(<<";", NL>>)>>)

\* const args = this.params.reduce(...): one fresh VarRef per parameter
FunctionExprArgs(node) ==
  [s \in {node.params[i].name : i \in 1..Len(node.params)} |->
     LET i == CHOOSE j \in 1..Len(node.params) :
                /\ node.params[j].name = s
                /\ \A k \in (j + 1)..Len(node.params) : node.params[k].name # s
     IN VarRef(s, node.params[i].type)]

\* const loopVar = new VarRef(this.variable)
ForExprLoopVar(node) == VarRef(node.variable, Undefined)
ForExprEnv(node) == Bind(EmptyEnv, node.body.param, ForExprLoopVar(node))

RECURSIVE Invoke(_, _, _)

\* node.toString(indent) and node.toBabelAST(): the method of the node's class
toString(node, indent) == Invoke(node, "text", indent)
toBabelAST(node) == Invoke(node, "tree", <<>>)

RECURSIVE MapToString(_)
RECURSIVE EntriesToString(_)
RECURSIVE TemplateLiteralExprParts(_, _, _)

\* value instanceof BaseExpr ? value.toString() : JSON.stringify(value)
ValueToString(value) == IF IsBaseExpr(value) THEN toString(value, <<>>) ELSE JSONstringify(value)

MapToString(values) ==
  IF values = <<>> THEN <<>> ELSE <<ValueToString(Head(values))>> \o MapToString(Tail(values))

LetExprToString(node) ==
  CatAll(<<T(<<"let ", node.name>>), TypeAnnotation(node.type), T(<<" = ">>),
           ValueToString(node.value), T(<<";">>)>>)

ForExprHeader(node) ==
  IF node.type = "for-of"
  THEN CatAll(<<T(<<"for (const ", node.variable, " of ">>),
                IF IsBaseExpr(node.iterable) THEN toString(node.iterable, <<>>)
                ELSE StringOf(node.iterable), T(<<") ">>)>>)
  ELSE IF node.type = "for-in"
  THEN CatAll(<<T(<<"for (const ", node.variable, " in ">>),
                IF IsBaseExpr(node.iterable) THEN toString(node.iterable, <<>>)
                ELSE StringOf(node.iterable), T(<<") ">>)>>)
  ELSE CatAll(<<T(<<"for (">>), ValueToString(node.init), T(<<"; ", node.variable, "; ">>),
                ValueToString(node.iterable), T(<<") ">>)>>)

WhileExprHeader(node) ==
  CatAll(<<T(<<"while (">>), ValueToString(node.condition), T(<<") {", NL>>)>>)

EntriesToString(entries) ==
  IF entries = <<>> THEN <<>>
  ELSE <<Cat(T(<<Head(entries).key, ": ">>), ValueToString(Head(entries).value))>>
       \o EntriesToString(Tail(entries))

ObjectExprToString(node) ==
  CatAll(<<T(<<"{ ">>), Join(EntriesToString(OwnProperties(node.properties)), <<", ">>), T(<<" }">>),
           TypeAnnotation(node.type)>>)

ArrayExprToString(node) ==
  CatAll(<<T(<<"[ ">>), Join(MapToString(node.elements), <<", ">>), T(<<" ]">>),
           TypeAnnotation(node.type)>>)

TypeParamsStr(typeParams) ==
  IF Len(typeParams) = 0 THEN T(<<>>)
  ELSE CatAll(<<T(<<"<">>), Join([i \in 1..Len(typeParams) |-> T(<<typeParams[i]>>)], <<", ">>),
                T(<<">">>)>>)

FunctionExprParams(node) ==
  Join([i \in 1..Len(node.params) |->
          IF node.params[i].type.kind = "undefined" THEN T(<<node.params[i].name>>)
          ELSE Cat(T(<<node.params[i].name, ": ">>), TypeToString(node.params[i].type))],
       <<", ">>)

\* `${typeParamsStr}(${params})${returnTypeStr} => `
FunctionExprHeader(node) ==
  CatAll(<<TypeParamsStr(node.typeParams), T(<<"(">>), FunctionExprParams(node), T(<<")">>),
           TypeAnnotation(node.returnType), T(<<" => ">>)>>)

TypeAliasExprToString(node) ==
  CatAll(<<T(<<"type ", node.name>>), TypeParamsStr(node.typeParams), T(<<" = ">>),
           TypeToString(node.type), T(<<";", NL>>)>>)

InterfaceExprToString(node) ==
  CatAll(<<T(<<"interface ", node.name>>), TypeParamsStr(node.typeParams), T(<<" {", NL>>),
           Join([i \in 1..Len(OwnProperties(node.properties)) |->
                   CatAll(<<T(<<"  ", OwnProperties(node.properties)[i].key, ": ">>),
                            TypeToString(OwnProperties(node.properties)[i].value), T(<<";">>)>>)],
                <<NL>>),
           T(<<NL, "}", NL>>)>>)

\* a callee or receiver: a node by toString, a string as it is, else JSON.stringify
NameToString(value) ==
  IF IsBaseExpr(value) THEN toString(value, <<>>)
  ELSE IF value.kind = "string" THEN T(<<value.str>>)
  ELSE JSONstringify(value)

FunctionCallExprToString(node) ==
  CatAll(<<NameToString(node.functionRef), T(<<"(">>),
           Join(MapToString(node.args), <<", ">>), T(<<")">>)>>)

MethodCallExprToString(node) ==
  CatAll(<<NameToString(node.object), T(<<".", node.method, "(">>),
           Join(MapToString(node.args), <<", ">>), T(<<")">>)>>)

RawExprToString(node) == T(node.code)

NumericBinaryOpExprToString(node) ==
  CatAll(<<ValueToString(node.left), T(<<" ", node.operator, " ">>), ValueToString(node.right)>>)

LogicalBinaryOpExprToString(node) ==
  CatAll(<<ValueToString(node.left), T(<<" ", node.operator, " ">>), ValueToString(node.right)>>)

\* the operator is always put before the operand
UnaryOpExprToStringPrefix(node) ==
  Cat(T(<<node.operator>>), ValueToString(node.operand))

UnaryOpExprToString(node) ==
  IF node.prefix THEN Cat(T(<<node.operator>>), ValueToString(node.operand))
  ELSE Cat(ValueToString(node.operand), T(<<node.operator>>))

PropertyAccessExprToString(node) ==
  IF node.computed
  THEN CatAll(<<ValueToString(node.object), T(<<"[">>), ValueToString(node.property), T(<<"]">>)>>)
  ELSE CatAll(<<ValueToString(node.object), T(<<".">>),
                IF IsBaseExpr(node.property) THEN toString(node.property, <<>>)
                ELSE StringOf(node.property)>>)

\* the grave accent that delimits a template literal (a TLA+ string cannot hold one)
Backtick == "<grave>"

\* the loop over parts from index i, result being the text so far
TemplateLiteralExprParts(node, i, result) ==
  IF i > Len(node.parts) THEN result
  ELSE TemplateLiteralExprParts(node, i + 1,
         CatAll(<<result, T(<<node.parts[i]>>),
                  IF i <= Len(node.expressions)
                  THEN CatAll(<<T(<<"${">>), ValueToString(node.expressions[i]), T(<<"}">>)>>)
                  ELSE T(<<>>)>>))

TemplateLiteralExprToString(node) ==
  Cat(TemplateLiteralExprParts(node, 1, T(<<Backtick>>)), T(<<Backtick>>))

VarRefToString(node) == T(<<node.name>>)
NumberExprToString(node) == Cat(T(<<ToString(node.value.num)>>), TypeAnnotation(node.type))
StringExprToString(node) == Cat(JSONstringify(node.value), TypeAnnotation(node.type))
BoolExprToString(node) == Cat(T(<<BoolText(node.value.bool)>>), TypeAnnotation(node.type))

----------------------------------------------------------------------------
(* The tree backend: the nodes of @babel/types the code builds.  A result   *)
(* is a tree, a record tagged by `type`, or Error(message) when the         *)
(* conversion threw.                                                        *)

Error(message) == [type |-> "Error", message |-> message]
IsError(tree) == tree.type = "Error"
Null == [type |-> "null"]

\* the first throw among the trees evaluated in this order
RECURSIVE FirstError(_)
FirstError(trees) ==
  IF Len(trees) = 0 THEN Null
  ELSE IF IsError(Head(trees)) THEN Head(trees) ELSE FirstError(Tail(trees))

\* A call whose arguments evaluate to trees in this order: the first throw
\* among them, and the call never happens, else its result.
Thrower(trees, result) == IF IsError(trees) THEN trees ELSE result
Try(trees, result) == Thrower(FirstError(trees), result)

identifier(name) == [type |-> "Identifier", name |-> name]
numericLiteral(value) == [type |-> "NumericLiteral", value |-> RawNumber(value)]
stringLiteral(value) == [type |-> "StringLiteral", value |-> RawString(value)]
booleanLiteral(value) == [type |-> "BooleanLiteral", value |-> RawBoolean(value)]
objectProperty(key, value) ==
  Try(<<value>>, [type |-> "ObjectProperty", key |-> key, value |-> value])
objectExpression(properties) ==
  Try(properties, [type |-> "ObjectExpression", properties |-> properties])
arrayExpression(elements) ==
  Try(elements, [type |-> "ArrayExpression", elements |-> elements])
variableDeclarator(id, init) ==
  Try(<<init>>, [type |-> "VariableDeclarator", id |-> id, init |-> init])
variableDeclaration(kind, declarations) ==
  Try(declarations,
      [type |-> "VariableDeclaration", kind |-> kind, declarations |-> declarations])
blockStatement(body) == Try(body, [type |-> "BlockStatement", body |-> body])
expressionStatement(expression) ==
  Try(<<expression>>, [type |-> "ExpressionStatement", expression |-> expression])
returnStatement(argument) ==
  Try(<<argument>>, [type |-> "ReturnStatement", argument |-> argument])
ifStatement(test, consequent, alternate) ==
  Try(<<test, consequent, alternate>>,
      [type |-> "IfStatement", test |-> test, consequent |-> consequent,
       alternate |-> alternate])
forOfStatement(left, right, body) ==
  Try(<<right, body>>,
      [type |-> "ForOfStatement", left |-> left, right |-> right, body |-> body])
forInStatement(left, right, body) ==
  Try(<<right, body>>,
      [type |-> "ForInStatement", left |-> left, right |-> right, body |-> body])
forStatement(init, test, update, body) ==
  Try(<<init, update, body>>,
      [type |-> "ForStatement", init |-> init, test |-> test, update |-> update,
       body |-> body])
whileStatement(test, body) ==
  Try(<<test, body>>, [type |-> "WhileStatement", test |-> test, body |-> body])
arrowFunctionExpression(params, body) ==
  Try(<<body>>, [type |-> "ArrowFunctionExpression", params |-> params, body |-> body])
callExpression(callee, arguments) ==
  Try(<<callee>> \o arguments,
      [type |-> "CallExpression", callee |-> callee, arguments |-> arguments])
memberExpression(object, property, computed) ==
  Try(<<object, property>>,
      [type |-> "MemberExpression", object |-> object, property |-> property,
       computed |-> computed])
binaryExpression(operator, left, right) ==
  Try(<<left, right>>,
      [type |-> "BinaryExpression", operator |-> operator, left |-> left, right |-> right])
logicalExpression(operator, left, right) ==
  Try(<<left, right>>,
      [type |-> "LogicalExpression", operator |-> operator, left |-> left, right |-> right])
unaryExpression(operator, argument, prefix) ==
  Try(<<argument>>,
      [type |-> "UnaryExpression", operator |-> operator, argument |-> argument,
       prefix |-> prefix])
updateExpression(operator, argument, prefix) ==
  Try(<<argument>>,
      [type |-> "UpdateExpression", operator |-> operator, argument |-> argument,
       prefix |-> prefix])
templateElement(raw, tail) == [type |-> "TemplateElement", raw |-> raw, tail |-> tail]
templateLiteral(quasis, expressions) ==
  Try(expressions,
      [type |-> "TemplateLiteral", quasis |-> quasis, expressions |-> expressions])
file(prog) == Try(<<prog>>, [type |-> "File", program |-> prog])
program(body) == Try(body, [type |-> "Program", body |-> body, sourceType |-> "module"])
tsKeyword(name) == [type |-> name]
tsTypeReference(typeName) == [type |-> "TSTypeReference", typeName |-> typeName]
tsTypeParameter(name) == [type |-> "TSTypeParameter", name |-> name]
tsTypeParameterDeclaration(params) == [type |-> "TSTypeParameterDeclaration", params |-> params]
tsTypeAliasDeclaration(id, typeParameters, typeAnnotation) ==
  [type |-> "TSTypeAliasDeclaration", id |-> id, typeParameters |-> typeParameters,
   typeAnnotation |-> typeAnnotation]
tsPropertySignature(key, typeAnnotation) ==
  [type |-> "TSPropertySignature", key |-> key, typeAnnotation |-> typeAnnotation]
tsInterfaceDeclaration(id, typeParameters, body) ==
  [type |-> "TSInterfaceDeclaration", id |-> id, typeParameters |-> typeParameters,
   body |-> body]

\* t.isStatement(node), t.isExpression(node), over the types the code builds
isStatement(node) ==
  node.type \in {"VariableDeclaration", "BlockStatement", "ExpressionStatement",
                 "ReturnStatement", "IfStatement", "ForOfStatement", "ForInStatement",
                 "ForStatement", "WhileStatement", "TSTypeAliasDeclaration",
                 "TSInterfaceDeclaration"}
isExpression(node) ==
  node.type \in {"Identifier", "NumericLiteral", "StringLiteral", "BooleanLiteral",
                 "ObjectExpression", "ArrayExpression", "ArrowFunctionExpression",
                 "CallExpression", "MemberExpression", "BinaryExpression",
                 "LogicalExpression", "UnaryExpression", "UpdateExpression",
                 "TemplateLiteral"}

\* typeof value
typeof(value) == IF value.kind = "array" THEN "object" ELSE value.kind

\* Object.entries of a raw object or array
ObjectEntries(value) ==
  IF value.kind = "array"
  THEN [i \in 1..Len(value.items) |-> Entry(ToString(i - 1), value.items[i])]
  ELSE OwnProperties(value.entries)

\* statements.push(node) whatever the node is, an expression left bare
BlockExprPushAsIs(e, node) ==
  IF IsBaseExpr(e) /\ (isExpression(node) \/ isStatement(node)) THEN <<node>> ELSE <<>>

\* What a body driver of the tree backend pushes for the handed-over value e,
\* given node, the result of e.toBabelAST() when e is a node.
BlockExprPush(e, node) ==
  IF IsBaseExpr(e)
  THEN IF isExpression(node) THEN <<expressionStatement(node)>>
       ELSE IF isStatement(node) THEN <<node>> ELSE <<>>
  ELSE <<>>

ForExprPush(e, node) ==
  IF IsBaseExpr(e)
  THEN IF isStatement(node) THEN <<node>>
       ELSE IF isExpression(node) THEN <<expressionStatement(node)>> ELSE <<>>
  ELSE <<>>

WhileExprPush(e, node) ==
  IF IsBaseExpr(e)
  THEN IF isStatement(node) THEN <<node>>
       ELSE IF isExpression(node) THEN <<expressionStatement(node)>> ELSE <<>>
  ELSE <<>>

FunctionExprPush(e, node) ==
  IF IsBaseExpr(e)
  THEN IF isStatement(node) THEN <<node>>
       ELSE IF isExpression(node) THEN <<expressionStatement(node)>> ELSE <<>>
  ELSE <<>>

\* only the trees that are statements are pushed, an expression is left out
CodeGenASTPushStatements(e, node) ==
  IF IsBaseExpr(e) /\ isStatement(node) THEN <<node>> ELSE <<>>

CodeGenASTPush(e, node) ==
  IF IsBaseExpr(e)
  THEN IF isStatement(node) THEN <<node>>
       ELSE IF isExpression(node) THEN <<expressionStatement(node)>> ELSE <<>>
  ELSE <<>>

Push(driver, e, node) ==
  CASE driver = "BlockExpr" -> BlockExprPush(e, node)
    [] driver = "ForExpr" -> ForExprPush(e, node)
    [] driver = "WhileExpr" -> WhileExprPush(e, node)
    [] driver = "FunctionExpr" -> FunctionExprPush(e, node)
    [] driver = "CodeGenAST" -> CodeGenASTPush(e, node)

RECURSIVE LetExprConvertValueToBabel(_)
RECURSIVE LetExprObjectToBabel(_)
RECURSIVE LetExprEntriesToBabel(_)
RECURSIVE ObjectExprProperties(_)
RECURSIVE MapConvert(_, _)

\* convertValueToBabel without its final throw: any other value becomes the
\* identifier `undefined`
LetExprConvertAnyValue(value) ==
  IF IsBaseExpr(value) THEN toBabelAST(value)
  ELSE IF typeof(value) = "number" THEN numericLiteral(value.num)
  ELSE IF typeof(value) = "string" THEN stringLiteral(value.str)
  ELSE IF typeof(value) = "boolean" THEN booleanLiteral(value.bool)
  ELSE IF typeof(value) = "object" THEN LetExprObjectToBabel(value)
  ELSE identifier("undefined")

LetExprConvertValueToBabel(value) ==
  IF IsBaseExpr(value) THEN toBabelAST(value)
  ELSE IF typeof(value) = "number" THEN numericLiteral(value.num)
  ELSE IF typeof(value) = "string" THEN stringLiteral(value.str)
  ELSE IF typeof(value) = "boolean" THEN booleanLiteral(value.bool)
  ELSE IF typeof(value) = "object" THEN LetExprObjectToBabel(value)
  ELSE Error("Unsupported value type: " \o typeof(value))

LetExprEntriesToBabel(entries) ==
  IF Len(entries) = 0 THEN <<>>
  ELSE <<objectProperty(identifier(Head(entries).key),
                        LetExprConvertValueToBabel(Head(entries).value))>>
       \o LetExprEntriesToBabel(Tail(entries))

LetExprObjectToBabel(obj) == objectExpression(LetExprEntriesToBabel(ObjectEntries(obj)))

LetExprToBabelAST(node) ==
  variableDeclaration("const",
    <<variableDeclarator(identifier(node.name), LetExprConvertValueToBabel(node.value))>>)

\* the convertValueToBabel of the classes that take a node, a number, a string
\* or a boolean, and throw `${what}: ${typeof value}` for any other value
ConvertPrimitive(value, what) ==
  IF IsBaseExpr(value) THEN toBabelAST(value)
  ELSE IF typeof(value) = "string" THEN stringLiteral(value.str)
  ELSE IF typeof(value) = "number" THEN numericLiteral(value.num)
  ELSE IF typeof(value) = "boolean" THEN booleanLiteral(value.bool)
  ELSE Error(what \o ": " \o typeof(value))

IfExprConvertValueToBabel(value) == ConvertPrimitive(value, "Unsupported condition type")
ForExprConvertValueToBabel(value) == ConvertPrimitive(value, "Unsupported value type")
WhileExprConvertValueToBabel(value) == ConvertPrimitive(value, "Unsupported condition type")
ObjectExprConvertValueToBabel(value) == ConvertPrimitive(value, "Unsupported value type")
ArrayExprConvertElement(value) == ConvertPrimitive(value, "Unsupported element type")
FunctionCallExprConvertValueToBabel(value) == ConvertPrimitive(value, "Unsupported value type")
MethodCallExprConvertValueToBabel(value) == ConvertPrimitive(value, "Unsupported value type")
UnaryOpExprConvertValueToBabel(value) == ConvertPrimitive(value, "Unsupported operand type")
TemplateLiteralExprConvert(value) == ConvertPrimitive(value, "Unsupported template expression")

\* FunctionExpr.convertValueToBabel is called on a value that is no node
FunctionExprConvertValueToBabel(value) ==
  IF typeof(value) = "string" THEN stringLiteral(value.str)
  ELSE IF typeof(value) = "number" THEN numericLiteral(value.num)
  ELSE IF typeof(value) = "boolean" THEN booleanLiteral(value.bool)
  ELSE Error("Unsupported value type: " \o typeof(value))

NumericBinaryOpExprConvertValueToBabel(value) ==
  IF IsBaseExpr(value) THEN toBabelAST(value)
  ELSE IF typeof(value) = "number" THEN numericLiteral(value.num)
  ELSE Error("Unsupported numeric operand: " \o typeof(value))

LogicalBinaryOpExprConvertValueToBabel(value) ==
  IF IsBaseExpr(value) THEN toBabelAST(value)
  ELSE IF typeof(value) = "boolean" THEN booleanLiteral(value.bool)
  ELSE Error("Unsupported boolean operand: " \o typeof(value))

\* values.map(value => convert(value)), by the class whose conversion it is
MapConvert(class, values) ==
  IF Len(values) = 0 THEN <<>>
  ELSE <<CASE class = "ArrayExpr" -> ArrayExprConvertElement(Head(values))
           [] class = "FunctionCallExpr" -> FunctionCallExprConvertValueToBabel(Head(values))
           [] class = "MethodCallExpr" -> MethodCallExprConvertValueToBabel(Head(values))
           [] class = "TemplateLiteralExpr" -> TemplateLiteralExprConvert(Head(values))>>
       \o MapConvert(class, Tail(values))

\* a value's truth in a condition
Truthy(value) ==
  CASE value.kind = "undefined" -> FALSE
    [] value.kind = "number" -> value.num # 0
    [] value.kind = "string" -> value.str # ""
    [] value.kind = "boolean" -> value.bool
    [] OTHER -> TRUE

\* Object.entries(this.properties).map(([key, value]) => t.objectProperty(...))
ObjectExprProperties(entries) ==
  IF Len(entries) = 0 THEN <<>>
  ELSE <<objectProperty(identifier(Head(entries).key),
                        ObjectExprConvertValueToBabel(Head(entries).value))>>
       \o ObjectExprProperties(Tail(entries))

ObjectExprToBabelAST(node) ==
  objectExpression(ObjectExprProperties(OwnProperties(node.properties)))

ArrayExprToBabelAST(node) == arrayExpression(MapConvert("ArrayExpr", node.elements))

\* the return statement of a function body, for the producer's completion value
FunctionExprReturnStatement(value) ==
  IF value.kind = "undefined" THEN <<>>
  ELSE IF IsBaseExpr(value) THEN <<returnStatement(toBabelAST(value))>>
  ELSE <<returnStatement(FunctionExprConvertValueToBabel(value))>>

\* convertTypeToTSType, the same in TypeAliasExpr and InterfaceExpr
TypeAliasExprConvertTypeToTSType(type) ==
  IF type.kind = "PrimitiveType"
  THEN CASE type.name = "string" -> tsKeyword("TSStringKeyword")
         [] type.name = "number" -> tsKeyword("TSNumberKeyword")
         [] type.name = "boolean" -> tsKeyword("TSBooleanKeyword")
         [] type.name = "any" -> tsKeyword("TSAnyKeyword")
         [] OTHER -> tsTypeReference(identifier(type.name))
  ELSE tsKeyword("TSAnyKeyword")

InterfaceExprConvertTypeToTSType(type) ==
  IF type.kind = "PrimitiveType"
  THEN CASE type.name = "string" -> tsKeyword("TSStringKeyword")
         [] type.name = "number" -> tsKeyword("TSNumberKeyword")
         [] type.name = "boolean" -> tsKeyword("TSBooleanKeyword")
         [] type.name = "any" -> tsKeyword("TSAnyKeyword")
         [] OTHER -> tsTypeReference(identifier(type.name))
  ELSE tsKeyword("TSAnyKeyword")

\* this.typeParams?.map(...) || null, then the declaration unless null
TypeParameters(typeParams) ==
  IF Len(typeParams) = 0 THEN Null
  ELSE tsTypeParameterDeclaration([i \in 1..Len(typeParams) |-> tsTypeParameter(typeParams[i])])

TypeAliasExprToBabelAST(node) ==
  tsTypeAliasDeclaration(identifier(node.name), TypeParameters(node.typeParams),
                         TypeAliasExprConvertTypeToTSType(node.type))

InterfaceExprToBabelAST(node) ==
  tsInterfaceDeclaration(identifier(node.name), TypeParameters(node.typeParams),
    [i \in 1..Len(OwnProperties(node.properties)) |->
       tsPropertySignature(identifier(OwnProperties(node.properties)[i].key),
                           InterfaceExprConvertTypeToTSType(OwnProperties(node.properties)[i].value))])

FunctionCallExprToBabelAST(node) ==
  callExpression(FunctionCallExprConvertValueToBabel(node.functionRef),
                 MapConvert("FunctionCallExpr", node.args))

MethodCallExprToBabelAST(node) ==
  callExpression(memberExpression(MethodCallExprConvertValueToBabel(node.object),
                                  identifier(node.method), FALSE),
                 MapConvert("MethodCallExpr", node.args))

\* require("@babel/parser").parse(code, ...): the File of a fragment that
\* parses, its statements under program.body, and a SyntaxError thrown for one
\* that does not
parse(code) ==
  CASE code = "x;" -> file(program(<<expressionStatement(identifier("x"))>>))
    [] code = "let n = 1" ->
         file(program(<<variableDeclaration("let",
                          <<variableDeclarator(identifier("n"), numericLiteral(1))>>)>>))
    [] code = "\n" -> file(program(<<>>))
    [] OTHER -> Error("SyntaxError")

\* parsed.body[0] || fallback, inside the try: reading [0] of a property the
\* parsed node does not have throws a TypeError, which the catch turns into
\* the fallback as it does the parser's SyntaxError
RawExprFirstStatement(parsed, fallback) ==
  IF IsError(parsed) THEN fallback
  ELSE IF "body" \notin DOMAIN parsed THEN fallback
  ELSE IF Len(parsed.body) = 0 THEN fallback
  ELSE parsed.body[1]

RawExprToBabelAST(node) ==
  RawExprFirstStatement(parse(Flat(node.code)),
                        expressionStatement(stringLiteral(Flat(node.code))))

NumericBinaryOpExprToBabelAST(node) ==
  binaryExpression(node.operator, NumericBinaryOpExprConvertValueToBabel(node.left),
                   NumericBinaryOpExprConvertValueToBabel(node.right))

LogicalBinaryOpExprToBabelAST(node) ==
  logicalExpression(node.operator, LogicalBinaryOpExprConvertValueToBabel(node.left),
                    LogicalBinaryOpExprConvertValueToBabel(node.right))

UnaryOpExprToBabelAST(node) ==
  IF node.operator \in {"++", "--"}
  THEN updateExpression(node.operator, UnaryOpExprConvertValueToBabel(node.operand), node.prefix)
  ELSE unaryExpression(node.operator, UnaryOpExprConvertValueToBabel(node.operand), node.prefix)

\* t.identifier(String(this.property))
PropertyAccessExprName(property) ==
  identifier(IF IsBaseExpr(property) THEN Flat(toString(property, <<>>).t)
             ELSE Flat(StringOf(property).t))

PropertyAccessExprToBabelAST(node) ==
  IF node.computed
  THEN memberExpression(toBabelAST(node.object),
         IF typeof(node.property) = "string" THEN stringLiteral(node.property.str)
         ELSE PropertyAccessExprName(node.property), TRUE)
  ELSE memberExpression(toBabelAST(node.object), PropertyAccessExprName(node.property), FALSE)

TemplateLiteralExprToBabelAST(node) ==
  templateLiteral([i \in 1..Len(node.parts) |->
                     templateElement(node.parts[i], i = Len(node.parts))],
                  MapConvert("TemplateLiteralExpr", node.expressions))

VarRefToBabelAST(node) == identifier(node.name)
NumberExprToBabelAST(node) == numericLiteral(node.value.num)
StringExprToBabelAST(node) == stringLiteral(node.value.str)
BoolExprToBabelAST(node) == booleanLiteral(node.value.bool)

----------------------------------------------------------------------------
(* The top-level drivers CodeGenAST(write) and CodeGen(write) *)

CodeGenAST(write) == [kind |-> "CodeGenAST", write |-> write]
CodeGen(write) == [kind |-> "CodeGen", write |-> write]

\* result += value + "\n": each value on a line of its own
CodeGenItemLine(e, text) == Cat(IF IsBaseExpr(e) THEN text ELSE StringOf(e), T(<<NL>>))

\* result += value
CodeGenItem(e, text) == IF IsBaseExpr(e) THEN text ELSE StringOf(e)

----------------------------------------------------------------------------
(* The call stack of one render call.  A frame is a driver at work: the     *)
(* class whose toString or toBabelAST runs (or CodeGenAST), the node it     *)
(* renders, the indent it was called with, the generator object it          *)
(* consumes, what it has built so far, and where it stands:                 *)
(*   "next"     about to call next() on its generator                       *)
(*   "process"  holding the value gen.value that was handed over            *)
(*   "child"    inside the toString / toBabelAST of that value              *)
(*   "done"     its generator is exhausted, about to return                 *)
(* and for IfExpr, which consumes no generator but renders its two blocks,  *)
(*   "then", "else"  about to render that branch.                           *)

OwnsProducer(e) == e.kind \in {"BlockExpr", "IfExpr", "ForExpr", "WhileExpr", "FunctionExpr"}

NoFn == GeneratorFunction("", <<>>, Undefined)

\* the generator a driver starts: this.block(), this.body(loopVar), this.body(args), write()
DriverGenerator(node) ==
  CASE node.kind = "BlockExpr" -> NewGenerator(node.block, EmptyEnv)
    [] node.kind = "ForExpr" -> NewGenerator(node.body, ForExprEnv(node))
    [] node.kind = "WhileExpr" -> NewGenerator(node.body, EmptyEnv)
    [] node.kind = "FunctionExpr" -> NewGenerator(node.body, FunctionExprArgs(node))
    [] node.kind \in {"CodeGenAST", "CodeGen"} -> NewGenerator(node.write, EmptyEnv)
    [] OTHER -> NewGenerator(NoFn, EmptyEnv)

\* what toString has in result before it starts its producer
TextStart(node) ==
  CASE node.kind = "BlockExpr" -> T(<<"{", NL>>)
    [] node.kind = "ForExpr" -> Cat(ForExprHeader(node), T(<<"{", NL>>))
    [] node.kind = "WhileExpr" -> WhileExprHeader(node)
    [] node.kind = "FunctionExpr" -> Cat(FunctionExprHeader(node), T(<<"{", NL>>))
    [] node.kind = "IfExpr" -> CatAll(<<T(<<"if (">>), ValueToString(node.condition), T(<<") ">>)>>)
    [] OTHER -> T(<<>>)

\* what toBabelAST evaluates before it starts its producer: the parts of the
\* statement that come before the body, and an empty list of statements
TreeHead(node) ==
  CASE node.kind = "ForExpr" ->
         IF node.type \in {"for-of", "for-in"} THEN <<ForExprConvertValueToBabel(node.iterable)>>
         ELSE <<IF Truthy(node.init) THEN ForExprConvertValueToBabel(node.init) ELSE Null,
                ForExprConvertValueToBabel(node.iterable)>>
    [] node.kind = "WhileExpr" -> <<WhileExprConvertValueToBabel(node.condition)>>
    [] node.kind = "IfExpr" -> <<IfExprConvertValueToBabel(node.condition)>>
    [] OTHER -> <<>>

\* the producer is run up to its first value when the call starts, before
\* the driver asks for anything
FrameEager(node, backend, indent) ==
  [driver |-> node.kind, node |-> node, backend |-> backend, indent |-> indent,
   gen |-> GenNext(DriverGenerator(node)),
   phase |-> IF node.kind = "IfExpr" THEN "then" ELSE "next",
   text |-> IF backend = "text" THEN TextStart(node) ELSE T(<<>>),
   head |-> IF backend = "tree" THEN TreeHead(node) ELSE <<>>,
   list |-> <<>>]

Frame(node, backend, indent) ==
  [driver |-> node.kind, node |-> node, backend |-> backend, indent |-> indent,
   gen |-> DriverGenerator(node),
   phase |-> IF node.kind = "IfExpr" THEN "then" ELSE "next",
   text |-> IF backend = "text" THEN TextStart(node) ELSE T(<<>>),
   head |-> IF backend = "tree" THEN TreeHead(node) ELSE <<>>,
   list |-> <<>>]

\* whether the frame's call has thrown
Thrown(frame) == frame.text.err \/ IsError(FirstError(frame.head \o frame.list))
Exception(frame) == IF frame.text.err THEN Error(frame.text.t[1]) ELSE FirstError(frame.head \o frame.list)

\* the indent the driver passes to toString of the value it holds
ItemIndent(frame, e) ==
  CASE frame.driver = "BlockExpr" -> BlockExprItemIndent(frame.indent, e)
    [] frame.driver = "ForExpr" -> ForExprItemIndent(frame.indent, e)
    [] frame.driver = "WhileExpr" -> WhileExprItemIndent(frame.indent, e)
    [] frame.driver = "FunctionExpr" -> FunctionExprItemIndent(e)
    [] OTHER -> frame.indent

Item(frame, e, text) ==
  CASE frame.driver = "BlockExpr" -> BlockExprItem(frame.indent, e, text)
    [] frame.driver = "ForExpr" -> ForExprItem(frame.indent, e, text)
    [] frame.driver = "WhileExpr" -> WhileExprItem(frame.indent, e, text)
    [] frame.driver = "FunctionExpr" -> FunctionExprItem(e, text)
    [] frame.driver = "CodeGen" -> CodeGenItem(e, text)

\* result += item
Added(result, item) == Cat(result, item)

\* statements.unshift(...nodes): the statements put in front of the list
Unshifted(list, nodes) == nodes \o list

\* statements.push(...nodes)
Pushed(list, nodes) == list \o nodes

\* The driver adds the rendering and resumes its producer in the same breath,
\* fetching the next value before the call that rendered this one is over.
AcceptAndResume(frame, child) ==
  [frame EXCEPT !.gen = GenNext(@),
                !.text = IF frame.backend = "text" THEN Added(@, child) ELSE @,
                !.list = IF frame.backend = "tree" THEN Append(@, child) ELSE @,
                !.phase = IF frame.driver = "IfExpr"
                          THEN (IF @ = "then" THEN "else" ELSE "done")
                          ELSE IF GenNext(frame.gen).state = "suspendedYield"
                          THEN "process" ELSE "done"]

\* The driver has the rendering of the value it holds (child: a text or a
\* tree) and adds it to what it builds.
Accept(frame, child) ==
  IF frame.driver = "IfExpr"
  THEN IF frame.backend = "text"
       THEN [frame EXCEPT !.text = IF frame.phase = "then"
                                    THEN Added(Added(@, child), T(<<" else ">>))
                                    ELSE Added(@, child),
                          !.phase = IF @ = "then" THEN "else" ELSE "done"]
       ELSE [frame EXCEPT !.list = Append(@, child),
                          !.phase = IF @ = "then" THEN "else" ELSE "done"]
  ELSE IF frame.backend = "text"
       THEN [frame EXCEPT !.text = Added(@, Item(frame, frame.gen.value, child)),
                          !.phase = "next"]
       ELSE [frame EXCEPT !.list = IF IsError(child) THEN Append(@, child)
                                   ELSE Pushed(@, Push(frame.driver, frame.gen.value, child)),
                          !.phase = "next"]

\* what the frame's call returns once its producer is exhausted
Final(frame) ==
  LET node == frame.node
      left == variableDeclaration("const", <<variableDeclarator(identifier(node.variable), Null)>>)
      body == blockStatement(frame.list)
  IN IF frame.backend = "text"
     THEN CASE frame.driver \in {"BlockExpr", "ForExpr", "WhileExpr"} ->
                 Cat(frame.text, T(frame.indent \o <<"}">>))
            [] frame.driver = "FunctionExpr" ->
                 CatAll(<<frame.text,
                          FunctionExprReturn(frame.gen.value, toString(frame.gen.value, <<>>)),
                          T(<<"}">>)>>)
            [] frame.driver \in {"IfExpr", "CodeGen"} -> frame.text
     ELSE CASE frame.driver = "BlockExpr" -> body
            [] frame.driver = "ForExpr" ->
                 IF node.type = "for-of" THEN forOfStatement(left, frame.head[1], body)
                 ELSE IF node.type = "for-in" THEN forInStatement(left, frame.head[1], body)
                 ELSE forStatement(frame.head[1], identifier(node.variable), frame.head[2], body)
            [] frame.driver = "WhileExpr" -> whileStatement(frame.head[1], body)
            [] frame.driver = "FunctionExpr" ->
                 arrowFunctionExpression(
                   [i \in 1..Len(node.params) |-> identifier(node.params[i].name)],
                   blockStatement(frame.list \o FunctionExprReturnStatement(frame.gen.value)))
            [] frame.driver = "IfExpr" -> ifStatement(frame.head[1], frame.list[1], frame.list[2])
            [] frame.driver = "CodeGenAST" -> program(frame.list)

Failed(backend, value) == IF backend = "text" THEN value.err ELSE IsError(value)

\* what the call that has thrown raises, as a result of its backend
Raised(frame) == IF frame.backend = "text" THEN Throw(Exception(frame).message) ELSE Exception(frame)

\* the driver marks its node as started when it first resumes the producer
ResumedAndMarked(frame) ==
  LET gen == GenNext(frame.gen)
      marked == [f \in DOMAIN frame.node \cup {"started"} |->
                   IF f = "started" THEN TRUE ELSE frame.node[f]]
  IN IF gen.state = "threw"
     THEN IF frame.backend = "text"
          THEN [frame EXCEPT !.gen = gen, !.text = Throw("TypeError")]
          ELSE [frame EXCEPT !.gen = gen, !.list = Append(@, Error("TypeError"))]
     ELSE [frame EXCEPT !.gen = gen, !.node = marked,
                        !.phase = IF gen.state = "completed" THEN "done" ELSE "process"]

\* the driver asks its generator for the next value: gen.next(), or the next
\* round of its for...of
Resumed(frame) ==
  LET gen == GenNext(frame.gen)
  IN IF gen.state = "threw"
     THEN IF frame.backend = "text"
          THEN [frame EXCEPT !.gen = gen, !.text = Throw("TypeError")]
          ELSE [frame EXCEPT !.gen = gen, !.list = Append(@, Error("TypeError"))]
     ELSE [frame EXCEPT !.gen = gen,
                        !.phase = IF gen.state = "completed" THEN "done" ELSE "process"]

\* the rendering the driver asks of the value e it holds: e.toString(...) or
\* e.toBabelAST() when e is a node, and nothing when it is not
Child(frame, e) ==
  IF ~IsBaseExpr(e) THEN (IF frame.backend = "text" THEN T(<<>>) ELSE Null)
  ELSE IF frame.backend = "text" THEN toString(e, ItemIndent(frame, e))
  ELSE toBabelAST(e)

\* the driver leaves its loop after the first value: the producer is
\* abandoned where it stands
ProcessedAndLeft(frame) ==
  [Accept(frame, Child(frame, frame.gen.value)) EXCEPT !.phase = "done"]

\* the driver renders the value it holds and adds it to what it builds
Processed(frame) == Accept(frame, Child(frame, frame.gen.value))

\* the block an IfExpr renders next
BranchOf(frame) ==
  IF frame.phase = "then" THEN frame.node.thenBranch ELSE frame.node.elseBranch

\* IfExpr renders the block and adds it to what it builds
Branched(frame) ==
  Accept(frame, IF frame.backend = "text" THEN toString(BranchOf(frame), frame.indent)
                ELSE toBabelAST(BranchOf(frame)))

\* the call runs to its end: what it returns, or the throw it raises
RECURSIVE Steps(_)
Steps(frame) ==
  IF Thrown(frame) THEN Raised(frame)
  ELSE IF frame.phase = "done" THEN Final(frame)
  ELSE IF frame.phase = "next" THEN Steps(Resumed(frame))
  ELSE IF frame.phase = "process" THEN Steps(Processed(frame))
  ELSE Steps(Branched(frame))


\* toString() of the classes that consume no producer, by the node's class;
\* nothing is rendered for a value that is no node
LeafToString(node) ==
  CASE node.kind = "VarRef" -> VarRefToString(node)
    [] node.kind = "NumberExpr" -> NumberExprToString(node)
    [] node.kind = "StringExpr" -> StringExprToString(node)
    [] node.kind = "BoolExpr" -> BoolExprToString(node)
    [] node.kind = "LetExpr" -> LetExprToString(node)
    [] node.kind = "ObjectExpr" -> ObjectExprToString(node)
    [] node.kind = "ArrayExpr" -> ArrayExprToString(node)
    [] node.kind = "TypeAliasExpr" -> TypeAliasExprToString(node)
    [] node.kind = "InterfaceExpr" -> InterfaceExprToString(node)
    [] node.kind = "FunctionCallExpr" -> FunctionCallExprToString(node)
    [] node.kind = "MethodCallExpr" -> MethodCallExprToString(node)
    [] node.kind = "RawExpr" -> RawExprToString(node)
    [] node.kind = "NumericBinaryOpExpr" -> NumericBinaryOpExprToString(node)
    [] node.kind = "LogicalBinaryOpExpr" -> LogicalBinaryOpExprToString(node)
    [] node.kind = "UnaryOpExpr" -> UnaryOpExprToString(node)
    [] node.kind = "PropertyAccessExpr" -> PropertyAccessExprToString(node)
    [] node.kind = "TemplateLiteralExpr" -> TemplateLiteralExprToString(node)
    [] OTHER -> T(<<>>)

\* toBabelAST() of the classes that consume no producer, by the node's class
LeafToBabelAST(node) ==
  CASE node.kind = "VarRef" -> VarRefToBabelAST(node)
    [] node.kind = "NumberExpr" -> NumberExprToBabelAST(node)
    [] node.kind = "StringExpr" -> StringExprToBabelAST(node)
    [] node.kind = "BoolExpr" -> BoolExprToBabelAST(node)
    [] node.kind = "LetExpr" -> LetExprToBabelAST(node)
    [] node.kind = "ObjectExpr" -> ObjectExprToBabelAST(node)
    [] node.kind = "ArrayExpr" -> ArrayExprToBabelAST(node)
    [] node.kind = "TypeAliasExpr" -> TypeAliasExprToBabelAST(node)
    [] node.kind = "InterfaceExpr" -> InterfaceExprToBabelAST(node)
    [] node.kind = "FunctionCallExpr" -> FunctionCallExprToBabelAST(node)
    [] node.kind = "MethodCallExpr" -> MethodCallExprToBabelAST(node)
    [] node.kind = "RawExpr" -> RawExprToBabelAST(node)
    [] node.kind = "NumericBinaryOpExpr" -> NumericBinaryOpExprToBabelAST(node)
    [] node.kind = "LogicalBinaryOpExpr" -> LogicalBinaryOpExprToBabelAST(node)
    [] node.kind = "UnaryOpExpr" -> UnaryOpExprToBabelAST(node)
    [] node.kind = "PropertyAccessExpr" -> PropertyAccessExprToBabelAST(node)
    [] node.kind = "TemplateLiteralExpr" -> TemplateLiteralExprToBabelAST(node)
    [] OTHER -> Null

\* The method of the node's class: the classes that consume a producer run
\* as a call of their own, the others render at once.
Invoke(node, backend, indent) ==
  IF OwnsProducer(node) THEN Steps(Frame(node, backend, indent))
  ELSE IF backend = "text" THEN LeafToString(node)
  ELSE LeafToBabelAST(node)

\* the values the generator has handed over so far, in order
RECURSIVE LogYields(_)
LogYields(log) ==
  IF log = <<>> THEN <<>> ELSE LogYields(SubSeq(log, 1, Len(log) - 1)) \o log[Len(log)].yielded

HandedOver(gen) ==
  IF gen.state = "suspendedYield" THEN LogYields(gen.log) \o <<gen.value>>
  ELSE LogYields(gen.log)

Top == stack[Len(stack)]
Running == stack # <<>> /\ ~Thrown(Top)
SetTop(frame) == [stack EXCEPT ![Len(stack)] = frame]

Result(backend, raised, value) ==
  [backend |-> backend, raised |-> raised,
   text |-> IF backend = "text" /\ ~raised THEN value ELSE T(<<>>),
   tree |-> IF backend = "tree" \/ raised THEN value ELSE Null]

\* which of the two render calls the program under render offers
Offers(node, backend) ==
  CASE node.kind = "CodeGen" -> backend = "text"
    [] node.kind = "CodeGenAST" -> backend = "tree"
    [] OTHER -> TRUE

IsDriver(node) == node.kind \in {"CodeGen", "CodeGenAST"} \/ OwnsProducer(node)

----------------------------------------------------------------------------
(* The steps of a render call *)

\* root.toString() / root.toBabelAST() / root.run() is called on a node that
\* consumes a producer
Call(backend) ==
  /\ stack = <<>>
  /\ Len(results) < MaxCalls
  /\ IsDriver(root)
  /\ Offers(root, backend)
  /\ stack' = <<Frame(root, backend, <<>>)>>
  /\ UNCHANGED <<root, results>>

\* root.toString() / root.toBabelAST() on a node that consumes none
Rendered(backend, value) ==
  results' = Append(results, Result(backend, Failed(backend, value),
                                    IF backend = "text" /\ value.err
                                    THEN Error(value.t[1]) ELSE value))

Render(backend) ==
  /\ stack = <<>>
  /\ Len(results) < MaxCalls
  /\ ~IsDriver(root)
  /\ Rendered(backend, IF backend = "text" THEN toString(root, <<>>) ELSE toBabelAST(root))
  /\ UNCHANGED <<root, stack>>

\* the driver on top asks its generator for the next value
Resume ==
  /\ Running
  /\ Top.phase = "next"
  /\ stack' = SetTop(Resumed(Top))
  /\ UNCHANGED <<root, results>>

\* the driver renders the value it was handed, a value that consumes no producer
Process ==
  /\ Running
  /\ Top.phase = "process"
  /\ ~(IsBaseExpr(Top.gen.value) /\ OwnsProducer(Top.gen.value))
  /\ stack' = SetTop(Processed(Top))
  /\ UNCHANGED <<root, results>>

\* the driver calls toString / toBabelAST of a handed-over node that consumes
\* a producer of its own
Enter ==
  /\ Running
  /\ Top.phase = "process"
  /\ LET e == Top.gen.value
     IN /\ IsBaseExpr(e) /\ OwnsProducer(e)
        /\ stack' = Append(stack, Frame(e, Top.backend, ItemIndent(Top, e)))
  /\ UNCHANGED <<root, results>>

\* IfExpr calls toString(indent) / toBabelAST() of one of its two blocks
Branch ==
  /\ Running
  /\ Top.phase \in {"then", "else"}
  /\ stack' = Append(stack, Frame(BranchOf(Top), Top.backend, Top.indent))
  /\ UNCHANGED <<root, results>>

\* the call on top returns value, to its caller or to the outside
Returns(value) ==
  IF Failed(Top.backend, value)
  THEN /\ stack' = <<>>
       /\ results' = Append(results, Result(Top.backend, TRUE,
                                            IF Top.backend = "text"
                                            THEN Error(value.t[1]) ELSE value))
  ELSE IF Len(stack) = 1
  THEN /\ stack' = <<>>
       /\ results' = Append(results, Result(Top.backend, FALSE, value))
  ELSE /\ stack' = [SubSeq(stack, 1, Len(stack) - 1) EXCEPT
                      ![Len(stack) - 1] = Accept(@, value)]
       /\ UNCHANGED results

Return ==
  /\ Running
  /\ Top.phase = "done"
  /\ Returns(Final(Top))
  /\ UNCHANGED root

\* the caller catches the error thrown in the call on top and goes on with
\* its next value
RaiseCaught ==
  /\ stack # <<>>
  /\ Thrown(Top)
  /\ stack' = IF Len(stack) = 1 THEN <<>>
              ELSE [SubSeq(stack, 1, Len(stack) - 1) EXCEPT
                      ![Len(stack) - 1].phase = IF @ = "then" THEN "else"
                                                ELSE IF @ = "else" THEN "done" ELSE "next"]
  /\ results' = IF Len(stack) = 1
                THEN Append(results, Result(Top.backend, TRUE, Exception(Top)))
                ELSE results
  /\ UNCHANGED root

\* an error thrown in the call on top: nothing catches it, the render call fails
Raise ==
  /\ stack # <<>>
  /\ Thrown(Top)
  /\ stack' = <<>>
  /\ results' = Append(results, Result(Top.backend, TRUE, Exception(Top)))
  /\ UNCHANGED root

----------------------------------------------------------------------------
(* The programs under render.  A generator function is drawn as a sequence  *)
(* of at most MaxStmts of the statements below, each written with the $     *)
(* builders as in operationsExample; a statement that uses a const is drawn *)
(* only after the statement that binds it.                                  *)

\* $.not, $.negate, $.plus, $.increment, $.decrement
not(operand) == UnaryOpExpr("!", operand, TRUE)
negate(operand) == UnaryOpExpr("-", operand, TRUE)
plus(operand) == UnaryOpExpr("+", operand, TRUE)
increment(operand, prefix) == UnaryOpExpr("++", operand, prefix)
decrement(operand, prefix) == UnaryOpExpr("--", operand, prefix)

forOf(variable, iterable, body) == ForExpr(Undefined, variable, iterable, body, "for-of")
forIn(variable, iterable, body) == ForExpr(Undefined, variable, iterable, body, "for-in")
for(init, condition, increment_, body) == ForExpr(init, condition, increment_, body, "for")

ConsoleLog(arg) == MethodCallExpr(RawString("console"), "log", <<arg>>)

Atom(stmt, needs) == [stmt |-> stmt, needs |-> needs]

Atoms ==
  << \* const a = yield* $.let("a", 10)
     Atom(YieldStar("a", LetExpr("a", RawNumber(10), Undefined)), {}),
     \* const b = yield* $.let("b", numeric.add(a, 5))
     Atom(YieldStar("b", LetExpr("b", NumericBinaryOpExpr(Ref("a"), "+", RawNumber(5)), Undefined)),
          {"a"}),
     \* const a = yield* $.let("a", "x", primitive("string"))
     Atom(YieldStar("a", LetExpr("a", RawString("x"), PrimitiveType("string"))), {}),
     \* const f = yield* $.let("f", () => {})
     Atom(YieldStar("f", LetExpr("f", RawFunction, Undefined)), {}),
     \* yield 3
     Atom(Yield(RawNumber(3)), {}),
     \* yield* $.methodCall("console", "log", [v])
     Atom(YieldStar("", ConsoleLog(Ref("v"))), {"v"}),
     \* yield* $.forOf("cell", "row", function* (cell) { yield* $.methodCall("console", "log", [cell]) })
     Atom(YieldStar("", ForExpr(Undefined, "cell", RawString("row"),
                                GeneratorFunction("cell", <<YieldStar("", ConsoleLog(Ref("cell")))>>,
                                                  Undefined),
                                "for-of")), {}),
     \* yield* $.if(true, $.block(function* () { yield* $.let("t", 1) }), $.block(function* () {}))
     Atom(YieldStar("", IfExpr(RawBoolean(TRUE),
                               BlockExpr(GeneratorFunction("",
                                 <<YieldStar("", LetExpr("t", RawNumber(1), Undefined))>>, Undefined)),
                               BlockExpr(GeneratorFunction("", <<>>, Undefined)))), {}),
     \* yield* $.call("g", [])
     Atom(YieldStar("", FunctionCallExpr(RawString("g"), <<>>)), {}),
     \* yield* $.while(true, function* () { yield $.number(1) })
     Atom(YieldStar("", WhileExpr(RawBoolean(TRUE),
                                  GeneratorFunction("", <<Yield(NumberExpr(1, Undefined))>>,
                                                    Undefined))), {}),
     \* yield* $.fn([], function* () { const a = yield* $.let("a", 10); return a })
     Atom(YieldStar("", FunctionExpr(<<>>,
                                     GeneratorFunction("",
                                       <<YieldStar("a", LetExpr("a", RawNumber(10), Undefined))>>,
                                       Ref("a")),
                                     Undefined, <<>>)), {}) >>

\* what a drawn function returns: nothing, the const a, or the number 7
Rets == <<Atom(Undefined, {}), Atom(Ref("a"), {"a"}), Atom(RawNumber(7), {})>>

Bodies == UNION {[1..n -> 1..Len(Atoms)] : n \in 0..MaxStmts}

Drivers == {"BlockExpr", "ForExpr", "WhileExpr", "FunctionExpr", "CodeGen", "CodeGenAST"}

\* the consts in scope where the drawn body starts
Params(driver) ==
  CASE driver = "ForExpr" -> {"v"}
    [] driver = "FunctionExpr" -> {"x"}
    [] OTHER -> {}

Scoped(driver, body, ret) ==
  /\ \A i \in 1..Len(body) :
       Atoms[body[i]].needs \subseteq
         Params(driver) \cup {Atoms[body[j]].stmt.bind : j \in 1..(i - 1)}
  /\ Rets[ret].needs \subseteq {Atoms[body[j]].stmt.bind : j \in 1..Len(body)}
  /\ driver # "FunctionExpr" => ret = 1

Program(driver, body, ret) ==
  LET fn == GeneratorFunction(IF driver = "ForExpr" THEN "v" ELSE "",
                              [i \in 1..Len(body) |-> Atoms[body[i]].stmt],
                              Rets[ret].stmt)
  IN CASE driver = "BlockExpr" -> BlockExpr(fn)
       [] driver = "ForExpr" -> ForExpr(Undefined, "v", RawString("s"), fn, "for-of")
       [] driver = "WhileExpr" -> WhileExpr(RawBoolean(TRUE), fn)
       [] driver = "FunctionExpr" ->
            FunctionExpr(<<Param("x", PrimitiveType("number"))>>, fn, Undefined, <<>>)
       [] driver = "CodeGen" -> CodeGen(fn)
       [] driver = "CodeGenAST" -> CodeGenAST(fn)

\* programs that are one node consuming no producer, and an if at the top
Samples ==
  << LetExpr("f", RawFunction, Undefined),
     LetExpr("n", RawNumber(10), PrimitiveType("number")),
     ObjectExpr(<<Entry("k", RawNumber(1)), Entry("j", RawString("s")),
                  Entry("a", VarRef("a", Undefined))>>, Undefined),
     ObjectExpr(<<Entry("j", RawString("s")), Entry("k", RawNumber(1))>>, Undefined),
     ObjectExpr(<<Entry("b", RawNumber(1)), Entry("2", RawNumber(2)), Entry("1", RawNumber(3))>>,
                Undefined),
     ArrayExpr(<<RawNumber(2), RawString("s"), RawNumber(1), RawNumber(2)>>, Undefined),
     IfExpr(VarRef("c", Undefined),
            BlockExpr(GeneratorFunction("", <<YieldStar("", ConsoleLog(RawNumber(1)))>>, Undefined)),
            BlockExpr(GeneratorFunction("", <<Yield(RawNumber(3))>>, Undefined))),
     \* $.raw("x;"), $.raw("(") and $.nl()
     RawExpr(<<"x;">>),
     RawExpr(<<"(">>),
     RawExpr(<<NL>>),
     \* const user = yield* $.let("user", { name: "sai" }, type.object({ name: string }))
     \* const n = yield* $.prop(user, "name")
     BlockExpr(GeneratorFunction("",
       <<YieldStar("user", LetExpr("user", RawObject(<<Entry("name", RawString("sai"))>>),
                                   ObjectType(<<Entry("name", PrimitiveType("string"))>>))),
         YieldStar("n", PropertyAccessExpr(Ref("user"), RawString("name"), FALSE))>>,
       Undefined)),
     \* const m = yield* $.prop(u, "x"), u a reference of no declared type
     BlockExpr(GeneratorFunction("",
       <<YieldStar("m", PropertyAccessExpr(VarRef("u", Undefined), RawString("x"), FALSE))>>,
       Undefined)),
     \* const s = yield* numeric.add(1, 2); const t = yield* logical.and(true, false)
     BlockExpr(GeneratorFunction("",
       <<YieldStar("s", NumericBinaryOpExpr(RawNumber(1), "+", RawNumber(2))),
         YieldStar("t", LogicalBinaryOpExpr(RawBoolean(TRUE), "&&", RawBoolean(FALSE)))>>,
       Undefined)),
     \* CodeGenAST(function* () { yield* $.let("a", 10)
     \*   yield* $.if(true, $.block(function* () { yield* $.let("f", () => {}) }), $.block(function* () {})) })
     CodeGenAST(GeneratorFunction("",
       <<YieldStar("a", LetExpr("a", RawNumber(10), Undefined)),
         YieldStar("", IfExpr(RawBoolean(TRUE),
                              BlockExpr(GeneratorFunction("",
                                <<YieldStar("f", LetExpr("f", RawFunction, Undefined))>>, Undefined)),
                              BlockExpr(GeneratorFunction("", <<>>, Undefined))))>>,
       Undefined)),
     \* $.block(function* () { yield* $.let("a", 10)
     \*   yield* $.while(true, function* () { yield $.object({ k: () => {} }) }) })
     BlockExpr(GeneratorFunction("",
       <<YieldStar("a", LetExpr("a", RawNumber(10), Undefined)),
         YieldStar("", WhileExpr(RawBoolean(TRUE),
                                 GeneratorFunction("",
                                   <<Yield(ObjectExpr(<<Entry("k", RawFunction)>>, Undefined))>>,
                                   Undefined)))>>,
       Undefined)),
     \* type.typeAlias("Id", string), type.typeAlias("Names", string[]),
     \* type.interface("User", { name: string, tags: string[] })
     TypeAliasExpr("Id", PrimitiveType("string"), <<>>),
     TypeAliasExpr("Names", ArrayType(PrimitiveType("string")), <<>>),
     InterfaceExpr("User", <<Entry("name", PrimitiveType("string")),
                             Entry("tags", ArrayType(PrimitiveType("string")))>>, <<>>),
     \* $.methodCall("console", "log", [1]) and $.call("g", [])
     ConsoleLog(RawNumber(1)),
     FunctionCallExpr(RawString("g"), <<>>) >>

\* the segments of a template literal under render are at most MaxParts, its
\* expressions at most one less
MaxParts == 3

\* the types of the declarations `let n: <type> = 10` under render
SampleTypes ==
  << GenericType("T", <<>>),
     GenericType("Map", <<PrimitiveType("string"), PrimitiveType("number")>>),
     GenericType("Promise", <<GenericType("Array", <<PrimitiveType("string")>>)>>),
     UnionType(<<PrimitiveType("string"), PrimitiveType("number"), PrimitiveType("boolean")>>),
     IntersectionType(<<VariableType("A"), VariableType("B")>>),
     ArrayType(PrimitiveType("string")),
     ArrayType(UnionType(<<PrimitiveType("string"), PrimitiveType("number")>>)),
     ObjectType(<<Entry("k", PrimitiveType("string"))>>),
     ObjectType(<<Entry("b", PrimitiveType("string")), Entry("a", ArrayType(PrimitiveType("number")))>>),
     ObjectType(<<Entry("b", PrimitiveType("string")), Entry("1", PrimitiveType("number"))>>) >>

\* function* (v) { yield* $.methodCall("console", "log", [v]) }
LogLoopVarBody == GeneratorFunction("v", <<YieldStar("", ConsoleLog(Ref("v")))>>, Undefined)

\* One loop of each kind, its body logging the reference it is passed
Loops ==
  <<forOf("item", RawString("items"), LogLoopVarBody),
    forIn("key", RawString("obj"), LogLoopVarBody),
    for(LetExpr("i", RawNumber(0), Undefined), "i < 3",
        increment(VarRef("i", Undefined), FALSE), LogLoopVarBody)>>

\* Raw values given to $.let as initializers
RawInitializers ==
  <<RawNumber(10), RawString("sai"), RawBoolean(TRUE),
    RawObject(<<Entry("name", RawString("sai")), Entry("age", RawNumber(23))>>),
    RawArray(<<RawNumber(1), RawNumber(2)>>),
    RawObject(<<Entry("tags", RawArray(<<RawString("a")>>)), Entry("ok", RawBoolean(FALSE))>>),
    RawArray(<<>>),
    RawObject(<<>>)>>

Init ==
  /\ \/ \E driver \in Drivers, body \in Bodies, ret \in 1..Len(Rets) :
          /\ Scoped(driver, body, ret)
          /\ root = Program(driver, body, ret)
     \/ \E i \in 1..Len(Samples) : root = Samples[i]
     \/ \E i \in 1..Len(SampleTypes) : root = LetExpr("n", RawNumber(10), SampleTypes[i])
     \/ \E i \in 1..Len(RawInitializers) : root = LetExpr("user", RawInitializers[i], Undefined)
     \/ \E i \in 1..Len(Loops) : root = Loops[i]
     \/ \E n \in 0..MaxParts, m \in 0..MaxParts - 1 :
          root = TemplateLiteralExpr(SubSeq(<<"a", "b", "c", "d">>, 1, n),
                                     SubSeq(<<VarRef("x", Undefined), RawNumber(1),
                                              VarRef("x", Undefined)>>, 1, m))
     \/ \E operand \in {VarRef("x", Undefined)}, prefix \in BOOLEAN :
          root \in {not(operand), negate(operand), plus(operand),
                    increment(operand, prefix), decrement(operand, prefix)}
  /\ stack = <<>>
  /\ results = <<>>

Next ==
  \/ \E backend \in {"text", "tree"} : Call(backend)
  \/ \E backend \in {"text", "tree"} : Render(backend)
  \/ Resume
  \/ Process
  \/ Enter
  \/ Branch
  \/ Return
  \/ Raise

Spec == Init /\ [][Next]_vars

----------------------------------------------------------------------------
(* Properties *)

\* the statements the generators of the calls under way have passed
Passed == {<<i, j>> \in (1..Len(stack)) \X (1..MaxStmts + 1) : j <= Len(stack[i].gen.log)}
Entry_(p) == stack[p[1]].gen.log[p[2]]
IsLet(entry) == entry.op = "yield*" /\ entry.arg.kind = "LetExpr"

\* C1: the reference a LetExpr's iteration completes with renders as the bare
\* declared name, whatever the initializer, and an addition built on it as
\* `<name> + 5`; the block `a = let a = 10; b = let b = a + 5` renders `a + 5`.
C1_ReferenceRendersAsName ==
  /\ \A p \in Passed :
       IsLet(Entry_(p)) =>
         /\ toString(Entry_(p).result, <<>>) = T(<<Entry_(p).arg.name>>)
         /\ Flat(toString(NumericBinaryOpExpr(Entry_(p).result, "+", RawNumber(5)), <<>>).t)
              = Entry_(p).arg.name \o " + 5"
  /\ \A i \in 1..Len(results) :
       (root = Program("BlockExpr", <<1, 2>>, 1) /\ results[i].backend = "text") =>
         Flat(results[i].text.t) = "{\n  let a = 10;\n  let b = a + 5;\n}"

\* a call holds `let b = a + 5`, built on the reference `let a = 10` completed with
C1_Witness ==
  \E i \in 1..Len(stack) :
    /\ Len(stack[i].gen.log) = 1
    /\ IsLet(stack[i].gen.log[1])
    /\ stack[i].gen.log[1].arg.value = RawNumber(10)
    /\ stack[i].gen.state = "suspendedYield"
    /\ stack[i].gen.value.kind = "LetExpr"
    /\ stack[i].gen.value.value.kind = "NumericBinaryOpExpr"
    /\ stack[i].gen.value.value.left = stack[i].gen.log[1].result

\* C2: a step in which the generator on top passes a `yield*` of a LetExpr
\* starts where that LetExpr, and nothing else of it, was handed over and is
\* held by the driver, and completes with VarRef(name, type), the type absent
\* when none was declared; each binding has one such completion.
C2_HandsItselfThenReference ==
  [][\A j \in 1..(MaxStmts + 1) :
       (/\ stack # <<>> /\ Len(stack') = Len(stack)
        /\ Len(Top.gen.log) < j /\ j <= Len(Top.gen.log')
        /\ IsLet(Top.gen.log'[j]))
       => /\ j = Len(Top.gen.log) + 1
          /\ Top.gen.state = "suspendedYield"
          /\ Top.gen.sub = 1
          /\ Top.gen.value = Top.gen.log'[j].arg
          /\ Top.gen.log'[j].yielded = <<Top.gen.log'[j].arg>>
          /\ Top.gen.log'[j].result.kind = "VarRef"
          /\ Top.gen.log'[j].result.name = Top.gen.log'[j].arg.name
          /\ Top.gen.log'[j].result.type = Top.gen.log'[j].arg.type
          /\ Top.gen.pc' > Top.gen.pc]_vars

\* a generator has completed `let a: string = "x"` with the typed reference
C2_Witness ==
  \E p \in Passed :
    /\ IsLet(Entry_(p))
    /\ Entry_(p).yielded = <<Entry_(p).arg>>
    /\ Entry_(p).result = VarRef("a", PrimitiveType("string"))

\* the calls under way of the given class that have exhausted their producer
\* and are about to return
Done(driver, backend) ==
  {i \in 1..Len(stack) : /\ stack[i].driver = driver /\ stack[i].backend = backend
                         /\ stack[i].phase = "done" /\ ~Thrown(stack[i])}

\* the nodes among the values the call's producer handed over, in that order
HandedNodes(frame) == SelectSeq(HandedOver(frame.gen), IsBaseExpr)

\* the text of the lines of the handed-over values, concatenated in order
RECURSIVE LinesInOrder(_, _)
LinesInOrder(frame, handed) ==
  IF Len(handed) = 0 THEN ""
  ELSE LinesInOrder(frame, SubSeq(handed, 1, Len(handed) - 1))
         \o Flat(Item(frame, handed[Len(handed)], Child(frame, handed[Len(handed)])).t)

\* C3: a block that has exhausted its producer returns, in both backends, the
\* statements of the handed-over nodes n1..nk in hand-over order, one each and
\* none twice or missing; two declarations of the name `a` both appear, each
\* at its own position.
C3_BlockKeepsHandOverOrder ==
  /\ \A i \in Done("BlockExpr", "text") :
       Flat(Final(stack[i]).t)
         = "{\n" \o LinesInOrder(stack[i], HandedOver(stack[i].gen))
                 \o Flat(stack[i].indent) \o "}"
  /\ \A i \in Done("BlockExpr", "tree") :
       LET nodes == HandedNodes(stack[i])
           body == Final(stack[i]).body
       IN /\ Len(body) = Len(nodes)
          /\ \A k \in 1..Len(nodes) :
               <<body[k]>> = BlockExprPush(nodes[k], toBabelAST(nodes[k]))
  /\ \A i \in 1..Len(results) :
       (root = Program("BlockExpr", <<1, 3>>, 1) /\ results[i].backend = "text") =>
         Flat(results[i].text.t) = "{\n  let a = 10;\n  let a: string = \"x\";\n}"
  /\ \A i \in 1..Len(results) :
       (root = Program("BlockExpr", <<1, 3>>, 1) /\ results[i].backend = "tree") =>
         /\ Len(results[i].tree.body) = 2
         /\ results[i].tree.body[1].declarations[1].init = numericLiteral(10)
         /\ results[i].tree.body[2].declarations[1].init = stringLiteral("x")
         /\ \A k \in 1..2 : results[i].tree.body[k].declarations[1].id = identifier("a")

\* both backends have rendered the block that declares `a` twice
C3_Witness ==
  /\ root = Program("BlockExpr", <<1, 3>>, 1)
  /\ Len(results) = 2
  /\ results[1].backend # results[2].backend
  /\ \A i \in 1..2 : ~results[i].raised

\* the return line of the completion value, written out
ReturnLine(value) ==
  IF value.kind = "undefined" THEN ""
  ELSE "  return " \o (IF value.kind = "VarRef" THEN value.name ELSE ToString(value.num)) \o ";\n"

\* C4: a function literal returns only once its body producer has completed;
\* its body is then one statement per handed-over node, in order, followed by
\* exactly one return statement of the completion value when there is one,
\* and by none when the producer completed with no value, in both backends.
C4_FunctionBodyThenReturn ==
  /\ \A i \in Done("FunctionExpr", "text") \cup Done("FunctionExpr", "tree") :
       stack[i].gen.state = "completed"
  /\ \A i \in Done("FunctionExpr", "text") :
       Flat(Final(stack[i]).t)
         = Flat(TextStart(stack[i].node).t)
             \o LinesInOrder(stack[i], HandedOver(stack[i].gen))
             \o ReturnLine(stack[i].gen.value) \o "}"
  /\ \A i \in Done("FunctionExpr", "tree") :
       LET nodes == HandedNodes(stack[i])
           body == Final(stack[i]).body.body
           value == stack[i].gen.value
       IN /\ \A k \in 1..Len(nodes) :
               /\ k <= Len(body)
               /\ <<body[k]>> = FunctionExprPush(nodes[k], toBabelAST(nodes[k]))
               /\ body[k].type # "ReturnStatement"
          /\ IF value.kind = "undefined" THEN Len(body) = Len(nodes)
             ELSE /\ Len(body) = Len(nodes) + 1
                  /\ body[Len(body)].type = "ReturnStatement"
                  /\ body[Len(body)].argument
                       = IF value.kind = "VarRef" THEN identifier(value.name)
                         ELSE numericLiteral(value.num)
  /\ \A i \in 1..Len(results) :
       (root = Program("FunctionExpr", <<1>>, 2) /\ results[i].backend = "text") =>
         Flat(results[i].text.t) = "(x: number) => {\n  let a = 10;\n  return a;\n}"
  /\ \A i \in 1..Len(results) :
       (root = Program("FunctionExpr", <<1>>, 1) /\ results[i].backend = "text") =>
         Flat(results[i].text.t) = "(x: number) => {\n  let a = 10;\n}"

\* a function literal whose body declared `a` and completed with the
\* reference to it is about to return
C4_Witness ==
  \E i \in Done("FunctionExpr", "tree") :
    /\ stack[i].gen.value = VarRef("a", Undefined)
    /\ Len(HandedNodes(stack[i])) = 1

\* C5: a declaration whose initializer is a function value: toBabelAST raises
\* `Unsupported value type: function`, alone and as a statement of a block,
\* while toString does not raise and returns the declaration line with the
\* fallback stringification of the value, `undefined`.
C5_UnsupportedValue ==
  \A i \in 1..Len(results) :
    /\ (root = LetExpr("f", RawFunction, Undefined) /\ results[i].backend = "tree") =>
         /\ results[i].raised
         /\ results[i].tree = Error("Unsupported value type: function")
    /\ (root = LetExpr("f", RawFunction, Undefined) /\ results[i].backend = "text") =>
         /\ ~results[i].raised
         /\ Flat(results[i].text.t) = "let f = undefined;"
    /\ (root = Program("BlockExpr", <<4>>, 1) /\ results[i].backend = "tree") =>
         /\ results[i].raised
         /\ results[i].tree = Error("Unsupported value type: function")
    /\ (root = Program("BlockExpr", <<4>>, 1) /\ results[i].backend = "text") =>
         /\ ~results[i].raised
         /\ Flat(results[i].text.t) = "{\n  let f = undefined;\n}"

\* both calls have been made on the declaration of the function value
C5_Witness ==
  /\ root = LetExpr("f", RawFunction, Undefined)
  /\ Len(results) = 2
  /\ results[1].backend = "tree" /\ results[1].raised
  /\ results[2].backend = "text" /\ ~results[2].raised

\* C6: a tree-backend driver (BlockExpr, ForExpr, WhileExpr, FunctionExpr,
\* CodeGenAST) whose producer handed over a value that is no node never gets
\* as far as returning a tree: the call fails.
C6_NonNodeFailsTree ==
  \A i \in 1..Len(stack) :
    (/\ stack[i].backend = "tree"
     /\ stack[i].driver \in {"BlockExpr", "ForExpr", "WhileExpr", "FunctionExpr", "CodeGenAST"}
     /\ stack[i].phase = "done"
     /\ ~Thrown(stack[i]))
    => \A k \in 1..Len(HandedOver(stack[i].gen)) : IsBaseExpr(HandedOver(stack[i].gen)[k])

\* C7: two toString calls on the same node return the same: both raise the
\* same error or both return the same text.
C7_SameTextTwice ==
  \A i, j \in 1..Len(results) :
    (results[i].backend = "text" /\ results[j].backend = "text") =>
      /\ results[i].raised = results[j].raised
      /\ results[i].text = results[j].text
      /\ results[i].raised => results[i].tree = results[j].tree

\* toString has returned twice on a node that consumes a producer that hands
\* values over
C7_Witness ==
  /\ Len(results) = 2
  /\ results[1].backend = "text" /\ results[2].backend = "text"
  /\ OwnsProducer(root)
  /\ DriverGenerator(root).fn.stmts # <<>>
  /\ ~results[1].raised

\* a for-of loop over a bare string whose body handed over exactly
\* console.log(<the loop variable>)
LogsLoopVar(frame) ==
  /\ frame.node.type = "for-of"
  /\ frame.node.iterable.kind = "string"
  /\ Len(HandedOver(frame.gen)) = 1
  /\ HandedOver(frame.gen)[1].kind = "MethodCallExpr"
  /\ HandedOver(frame.gen)[1].object = RawString("console")
  /\ HandedOver(frame.gen)[1].method = "log"
  /\ Len(HandedOver(frame.gen)[1].args) = 1
  /\ HandedOver(frame.gen)[1].args[1].kind = "VarRef"
  /\ HandedOver(frame.gen)[1].args[1].name = frame.node.variable

\* C8: a for-of loop with variable v over the bare string s whose body hands
\* over console.log(loopVar) returns the header `for (const v of s) {`, one line
\* `console.log(v)` one indent unit deeper than the loop, and `}` at the
\* loop's own indent.
C8_ForOfRendering ==
  /\ \A i \in Done("ForExpr", "text") :
       LogsLoopVar(stack[i]) =>
         Flat(Final(stack[i]).t)
           = "for (const " \o stack[i].node.variable \o " of " \o stack[i].node.iterable.str
               \o ") {\n" \o Flat(stack[i].indent) \o "  console.log("
               \o stack[i].node.variable \o ")\n" \o Flat(stack[i].indent) \o "}"
  /\ \A i \in 1..Len(results) :
       (root = Program("ForExpr", <<6>>, 1) /\ results[i].backend = "text") =>
         Flat(results[i].text.t) = "for (const v of s) {\n  console.log(v)\n}"

\* such a loop, itself a statement of a body, is about to return
C8_Witness ==
  \E i \in Done("ForExpr", "text") :
    LogsLoopVar(stack[i]) /\ stack[i].indent = TAB /\ i > 1

\* C9: a for loop inside a for loop is rendered one indent unit deeper than
\* the outer loop; the outer loop returns its header, the inner header one
\* unit deeper, the inner statement two units deeper, the inner `}` at the
\* inner header's indent and its own `}` at its own.
C9_NestedForIndent ==
  /\ \A i \in 1..Len(stack) :
       (i > 1 /\ stack[i].backend = "text" /\ stack[i].driver = "ForExpr"
        /\ stack[i - 1].driver = "ForExpr")
       => stack[i].indent = stack[i - 1].indent \o TAB
  /\ \A i \in Done("ForExpr", "text") :
       (/\ Len(HandedOver(stack[i].gen)) = 1
        /\ HandedOver(stack[i].gen)[1] = Atoms[7].stmt.arg)
       => Flat(Final(stack[i]).t)
            = Flat(TextStart(stack[i].node).t)
                \o Flat(stack[i].indent) \o "  for (const cell of row) {\n"
                \o Flat(stack[i].indent) \o "    console.log(cell)\n"
                \o Flat(stack[i].indent) \o "  }\n"
                \o Flat(stack[i].indent) \o "}"
  /\ \A i \in 1..Len(results) :
       (root = Program("ForExpr", <<7>>, 1) /\ results[i].backend = "text") =>
         Flat(results[i].text.t)
           = "for (const v of s) {\n  for (const cell of row) {\n    console.log(cell)\n  }\n}"

\* the two-level loop has been rendered
C9_Witness ==
  /\ root = Program("ForExpr", <<7>>, 1)
  /\ Len(results) > 0
  /\ results[1].backend = "text"
  /\ ~results[1].raised

\* the keys of the properties, in the order they were inserted
RECURSIVE InsertedKeys(_)
InsertedKeys(entries) ==
  IF Len(entries) = 0 THEN ""
  ELSE entries[1].key \o ";" \o InsertedKeys(Tail(entries))

RECURSIVE RenderedKeys(_)
RenderedKeys(properties) ==
  IF Len(properties) = 0 THEN ""
  ELSE properties[1].key.name \o ";" \o RenderedKeys(Tail(properties))

\* C10: an ObjectExpr renders its properties in insertion order in both
\* backends (`{ k1: v1, k2: v2, ... }`, and the i-th property of the object
\* expression the i-th inserted key) and an ArrayExpr its elements in order.
C10_InsertionOrder ==
  \A i \in 1..Len(results) :
    /\ (root.kind = "ObjectExpr" /\ results[i].backend = "tree" /\ ~results[i].raised) =>
         RenderedKeys(results[i].tree.properties) = InsertedKeys(root.properties)
    /\ (root.kind = "ObjectExpr" /\ results[i].backend = "text") =>
         results[i].text
           = CatAll(<<T(<<"{ ">>), Join(EntriesToString(root.properties), <<", ">>), T(<<" }">>)>>)
    /\ (root.kind = "ArrayExpr" /\ results[i].backend = "text") =>
         Flat(results[i].text.t) = "[ 2, \"s\", 1, 2 ]"
    /\ (root.kind = "ArrayExpr" /\ results[i].backend = "tree") =>
         results[i].tree.elements
           = <<numericLiteral(2), stringLiteral("s"), numericLiteral(1), numericLiteral(2)>>


\* C11: RawExpr.toBabelAST never raises; it returns the first statement the
\* parser gives for a fragment that parses, and the expression statement of
\* the fragment as a string literal for one that does not parse.
C11_RawExprParsedOrFallback ==
  \A i \in 1..Len(results) :
    (root.kind = "RawExpr" /\ results[i].backend = "tree") =>
      /\ ~results[i].raised
      /\ results[i].tree
           = IF IsError(parse(Flat(root.code))) \/ root.code = <<NL>>
             THEN expressionStatement(stringLiteral(Flat(root.code)))
             ELSE parse(Flat(root.code)).program.body[1]


\* where a driver stands agrees with the state of the generator it consumes
InStep(frame) ==
  \/ frame.driver = "IfExpr"
  \/ Thrown(frame)
  \/ frame.phase = "next" /\ frame.gen.state \in {"suspendedStart", "suspendedYield"}
  \/ frame.phase = "process" /\ frame.gen.state = "suspendedYield"
  \/ frame.phase = "done" /\ frame.gen.state = "completed"

\* the generator of the call on top is not where it was
Advanced ==
  \/ Top.gen.pc' # Top.gen.pc
  \/ Top.gen.sub' # Top.gen.sub
  \/ Top.gen.state' # Top.gen.state

\* A bound on the steps a call takes: for a generator function from its
\* statement k on, a resumption and a processing per statement, what the
\* rendering of a handed-over node that consumes a producer takes, and the
\* last resumption and the return.
RECURSIVE StepsOf(_)
RECURSIVE StepsFrom(_, _)
StepsFrom(fn, k) ==
  IF k > Len(fn.stmts) THEN 2
  ELSE 2 + StepsOf(fn.stmts[k].arg) + StepsFrom(fn, k + 1)

StepsOf(value) ==
  IF ~(IsBaseExpr(value) /\ OwnsProducer(value)) THEN 0
  ELSE IF value.kind = "IfExpr"
  THEN 3 + StepsFrom(value.thenBranch.block, 1) + StepsFrom(value.elseBranch.block, 1)
  ELSE StepsFrom(DriverGenerator(value).fn, 1)

\* the steps the i-th call under way has left, those of the calls it waits
\* for not counted
StepsLeft(i) ==
  LET frame == stack[i]
      top == i = Len(stack)
  IN IF frame.phase = "done" THEN 1
     ELSE IF frame.driver = "IfExpr"
     THEN IF frame.phase = "then"
          THEN (IF top THEN 1 + StepsFrom(frame.node.thenBranch.block, 1) ELSE 0)
                 + 2 + StepsFrom(frame.node.elseBranch.block, 1)
          ELSE IF top THEN 2 + StepsFrom(frame.node.elseBranch.block, 1) ELSE 1
     ELSE IF frame.phase = "next"
     THEN StepsFrom(frame.gen.fn,
                    IF frame.gen.state = "suspendedStart" THEN 1 ELSE frame.gen.pc + 1)
     ELSE (IF top THEN 1 + StepsOf(frame.gen.value) ELSE 0)
            + StepsFrom(frame.gen.fn, frame.gen.pc + 1)

RECURSIVE SumStepsLeft(_)
SumStepsLeft(i) == IF i = 0 THEN 0 ELSE StepsLeft(i) + SumStepsLeft(i - 1)

\* the steps the render call under way has left: one, the raise, once it has thrown
Variant ==
  IF stack = <<>> THEN 0
  ELSE IF Thrown(Top) THEN 1
  ELSE SumStepsLeft(Len(stack))

\* C12: driver and producer alternate: the producer moves only when the
\* driver, having processed what it held, resumes it, and it then stands at
\* its next hand-over, which the driver processes next, or has completed; a
\* call ends only with its producer completed or with an error raised; and a
\* render call under way always has a step to take, each of which brings its
\* end closer, so it ends.
C12_AlternationAndExhaustion ==
  [][/\ \A i \in 1..Len(stack') : InStep(stack'[i])
     /\ (stack # <<>> /\ Len(stack') = Len(stack) /\ Advanced)
        => /\ Top.phase = "next"
           /\ \/ Top.phase' = "process" /\ Top.gen.state' = "suspendedYield"
              \/ Top.phase' = "done" /\ Top.gen.state' = "completed"
              \/ Top.gen.state' = "threw"
     /\ (stack # <<>> /\ Len(stack') < Len(stack))
        => \/ /\ Top.phase = "done"
              /\ Top.driver # "IfExpr" => Top.gen.state = "completed"
           \/ /\ stack' = <<>>
              /\ Len(results') = Len(results) + 1
              /\ results'[Len(results')].raised
     /\ stack' # <<>> =>
          Thrown(Top') \/ Top.phase' \in {"next", "process", "done", "then", "else"}
     /\ stack # <<>> => Variant' < Variant]_vars

\* a call is about to return with its producer completed after two hand-overs
C12_Witness ==
  \E i \in 1..Len(stack) :
    /\ stack[i].driver # "IfExpr"
    /\ stack[i].phase = "done"
    /\ stack[i].gen.state = "completed"
    /\ Len(HandedOver(stack[i].gen)) = 2


\* the i-th call of the calls s under way waits for the call above it, which
\* renders the node it holds (for an IfExpr, the block it stands at)
Waits(s, i) ==
  IF s[i].driver = "IfExpr"
  THEN s[i].phase \in {"then", "else"} /\ s[i + 1].node = BranchOf(s[i])
  ELSE /\ s[i].phase = "process"
       /\ s[i].gen.state = "suspendedYield"
       /\ s[i + 1].node = s[i].gen.value

\* the generator of the i-th call under way is not where it was
Moved(i) ==
  \/ stack'[i].gen.pc # stack[i].gen.pc
  \/ stack'[i].gen.sub # stack[i].gen.sub
  \/ stack'[i].gen.state # stack[i].gen.state

\* C13: producers do not interleave: every call but the innermost waits,
\* suspended at the node whose rendering the call above it is; only the
\* innermost call's producer ever moves; an inner call starts with a producer
\* of its own that has not run, and the call it returns to finds its own
\* producer where it left it, the inner one completed.
C13_NoInterleaving ==
  [][/\ \A i \in 1..(Len(stack') - 1) : Waits(stack', i)
     /\ \A i \in 1..Len(stack) :
          (i <= Len(stack') /\ Moved(i)) => (i = Len(stack) /\ i = Len(stack'))
     /\ Len(stack') > Len(stack) =>
          /\ Len(stack') = Len(stack) + 1
          /\ Top.driver' = "IfExpr" \/ Top.gen.state' = "suspendedStart"
          /\ Top.gen.log' = <<>>
     /\ (Len(stack') > 0 /\ Len(stack') < Len(stack)) =>
          /\ Len(stack') = Len(stack) - 1
          /\ Top.phase = "done"
          /\ Top.driver # "IfExpr" => Top.gen.state = "completed"]_vars

\* three calls deep: a block in an IfExpr in a body, its producer under way
C13_Witness ==
  /\ Len(stack) = 3
  /\ stack[2].driver = "IfExpr"
  /\ Top.gen.state = "suspendedYield"
  /\ stack[1].gen.state = "suspendedYield"


\* the declared type of the property an access reads, when the object is a
\* reference declared with an object type that names it, and `any` otherwise
RECURSIVE DeclaredType(_, _)
DeclaredType(properties, key) ==
  IF Len(properties) = 0 THEN PrimitiveType("any")
  ELSE IF properties[1].key = key THEN properties[1].value
  ELSE DeclaredType(Tail(properties), key)

TrackedType(access) ==
  IF access.object.kind = "VarRef" /\ access.object.type.kind = "ObjectType"
        /\ access.property.kind = "string"
  THEN DeclaredType(access.object.type.properties, access.property.str)
  ELSE PrimitiveType("any")

\* C14: a yield* of a NumericBinaryOpExpr completes with a reference of type
\* number, of a LogicalBinaryOpExpr with one of type boolean, and of a
\* PropertyAccessExpr with one of the property's tracked type when it is
\* known and of type any otherwise.
C14_TypedByResult ==
  \A p \in Passed :
    Entry_(p).op = "yield*" =>
      /\ Entry_(p).arg.kind = "NumericBinaryOpExpr" =>
           /\ Entry_(p).result.kind = "VarRef"
           /\ Entry_(p).result.type = PrimitiveType("number")
      /\ Entry_(p).arg.kind = "LogicalBinaryOpExpr" =>
           /\ Entry_(p).result.kind = "VarRef"
           /\ Entry_(p).result.type = PrimitiveType("boolean")
      /\ Entry_(p).arg.kind = "PropertyAccessExpr" =>
           /\ Entry_(p).result.kind = "VarRef"
           /\ Entry_(p).result.type = TrackedType(Entry_(p).arg)


\* the statement lists the tree drivers build
IsBodyOfTree(frame) == frame.backend = "tree" /\ frame.driver # "IfExpr"

\* the list of frame i has grown by an entry that is no error
Grown(i) ==
  /\ i <= Len(stack)
  /\ IsBodyOfTree(stack[i])
  /\ Len(stack'[i].list) > Len(stack[i].list)
  /\ ~IsError(stack'[i].list[Len(stack'[i].list)])

\* C15: each of the five tree drivers (BlockExpr, ForExpr, WhileExpr,
\* FunctionExpr, CodeGenAST) adds a handed-over node's tree to its statement
\* list wrapped in an expression statement when the tree is an expression and
\* as it is when the tree is a statement, whatever the driver; every element
\* of every statement list is a statement.
C15_ExpressionsWrapped ==
  [][\A i \in 1..Len(stack') :
       /\ IsBodyOfTree(stack'[i]) =>
            \A k \in 1..Len(stack'[i].list) :
              IsError(stack'[i].list[k]) \/ isStatement(stack'[i].list[k])
       /\ Grown(i) =>
            /\ Len(stack'[i].list) = Len(stack[i].list) + 1
            /\ IsBaseExpr(stack[i].gen.value)
            /\ \/ /\ isExpression(toBabelAST(stack[i].gen.value))
                  /\ stack'[i].list[Len(stack'[i].list)] =
                       expressionStatement(toBabelAST(stack[i].gen.value))
               \/ /\ isStatement(toBabelAST(stack[i].gen.value))
                  /\ stack'[i].list[Len(stack'[i].list)] = toBabelAST(stack[i].gen.value)]_vars

\* a loop body holds a declaration added as it is and a call wrapped in an
\* expression statement
C15_Witness ==
  \E i \in 1..Len(stack) :
    /\ stack[i].backend = "tree"
    /\ stack[i].driver = "ForExpr"
    /\ Len(stack[i].list) = 2
    /\ stack[i].list[1].type = "VariableDeclaration"
    /\ stack[i].list[2].type = "ExpressionStatement"
    /\ stack[i].list[2].expression.type = "CallExpression"


\* the nodes the frame's driver has taken from its producer and rendered: all
\* those handed over, but the one it is rendering now
TakenNodes(frame) ==
  IF frame.phase = "process"
  THEN SelectSeq(LogYields(frame.gen.log), IsBaseExpr)
  ELSE HandedNodes(frame)

\* tree is what the driver keeps of node: its tree, or the expression
\* statement around its tree
FromNode(tree, node) ==
  \/ tree = toBabelAST(node)
  \/ tree = expressionStatement(toBabelAST(node))

\* C16: at every moment of a tree call the statement list of a driver holds
\* one entry per node taken from the producer so far, the i-th entry built
\* from the i-th node, none left out and none twice; the program CodeGenAST
\* returns and the block BlockExpr returns have as many statements as nodes
\* were handed over.
C16_OneEntryPerNode ==
  \A i \in 1..Len(stack) :
    (IsBodyOfTree(stack[i]) /\ ~Thrown(stack[i])) =>
      /\ Len(stack[i].list) = Len(TakenNodes(stack[i]))
      /\ \A k \in 1..Len(stack[i].list) :
           FromNode(stack[i].list[k], TakenNodes(stack[i])[k])
      /\ (stack[i].phase = "done" /\ stack[i].driver \in {"BlockExpr", "CodeGenAST"}) =>
           Len(Final(stack[i]).body) = Len(HandedNodes(stack[i]))

\* a program of two nodes, a declaration and a function literal, is about to
\* be returned with two statements
C16_Witness ==
  \E i \in 1..Len(stack) :
    /\ stack[i].driver = "CodeGenAST"
    /\ stack[i].phase = "done"
    /\ Len(HandedNodes(stack[i])) = 2
    /\ Len(stack[i].list) = 2
    /\ stack[i].list[1].type = "VariableDeclaration"
    /\ stack[i].list[2].type = "ExpressionStatement"


\* the node whose call frame i of s is: the root for the first frame, and for
\* the others the node the frame below holds (the value it was handed, or the
\* branch an IfExpr renders)
NodeOf(s, i) ==
  IF i = 1 THEN root
  ELSE IF s[i - 1].driver = "IfExpr" THEN BranchOf(s[i - 1])
  ELSE s[i - 1].gen.value

\* C17: no step of a render call changes a node: the root keeps every field,
\* the node of each call under way is, field by field, the node the caller
\* holds, and the producer it consumes is still the one the node was built
\* with; the LetExpr a yield* took a reference from is the LetExpr that was
\* handed to the driver and renders as it did, in both backends.
C17_NodesUnchanged ==
  [][/\ root' = root
     /\ \A i \in 1..Len(stack') :
          /\ i <= Len(stack) => stack'[i].node = stack[i].node
          /\ stack'[i].node = NodeOf(stack', i)
          /\ stack'[i].gen.fn = DriverGenerator(stack'[i].node).fn
          /\ \A j \in 1..Len(stack'[i].gen.log) :
               (IsLet(stack'[i].gen.log[j]) /\ stack'[i].gen.log[j].result.kind = "VarRef") =>
                 /\ stack'[i].gen.log[j].yielded = <<stack'[i].gen.log[j].arg>>
                 /\ (i <= Len(stack) /\ j <= Len(stack[i].gen.log)) =>
                      stack'[i].gen.log[j].arg = stack[i].gen.log[j].arg]_vars

\* the block that is a branch of a handed-over if has taken the reference of
\* its declaration
C17_Witness ==
  /\ Len(stack) = 3
  /\ stack[3].node = BranchOf(stack[2])
  /\ Len(stack[3].gen.log) = 1
  /\ IsLet(stack[3].gen.log[1])
  /\ stack[3].gen.log[1].result.kind = "VarRef"


\* the strings joined by sep
RECURSIVE Joined(_, _)
Joined(strings, sep) ==
  IF Len(strings) = 0 THEN ""
  ELSE IF Len(strings) = 1 THEN strings[1]
  ELSE strings[1] \o sep \o Joined(Tail(strings), sep)

\* the rendering the structure of a type calls for: its name, its arguments
\* or members in order, its properties in the order they were inserted
RECURSIVE Structural(_)
Structural(type) ==
  CASE type.kind \in {"PrimitiveType", "VariableType"} -> type.name
    [] type.kind = "GenericType" ->
         IF Len(type.args) = 0 THEN type.name
         ELSE type.name \o "<"
                \o Joined([i \in 1..Len(type.args) |-> Structural(type.args[i])], ", ") \o ">"
    [] type.kind = "UnionType" ->
         Joined([i \in 1..Len(type.types) |-> Structural(type.types[i])], " | ")
    [] type.kind = "IntersectionType" ->
         Joined([i \in 1..Len(type.types) |-> Structural(type.types[i])], " & ")
    [] type.kind = "ArrayType" -> Structural(type.elementType) \o "[]"
    [] type.kind = "ObjectType" ->
         "{ " \o Joined([i \in 1..Len(type.properties) |->
                           type.properties[i].key \o ": " \o Structural(type.properties[i].value)],
                        "; ") \o " }"

\* C18: a type renders by its structure: a GenericType as its bare name or as
\* `Name<a1, a2>`, a UnionType and an IntersectionType as their members in
\* order joined by `|` and `&`, an ArrayType as `<element>[]`, an ObjectType
\* as `{ k: T }` with its properties in the order they were inserted.
C18_StructuralTypes ==
  \A i \in 1..Len(results) :
    (/\ root.kind = "LetExpr"
     /\ root.type.kind \in {"GenericType", "UnionType", "IntersectionType", "ArrayType",
                            "ObjectType"}
     /\ results[i].backend = "text")
    => /\ ~results[i].raised
       /\ Flat(results[i].text.t) = "let n: " \o Structural(root.type) \o " = 10;"


\* line starts with the tokens of prefix
StartsWith(line, prefix) ==
  /\ Len(line) >= Len(prefix)
  /\ SubSeq(line, 1, Len(prefix)) = prefix

\* the lines the driver has added to its body so far: all it has built but
\* the line of its header
BodyLines(frame) ==
  SubSeq(Split(frame.text.t), 2, Len(Split(frame.text.t)) - 1)

\* the calls of the pretty-printer that render a body
RendersBody(frame) ==
  /\ frame.backend = "text"
  /\ frame.driver \in {"BlockExpr", "ForExpr", "WhileExpr", "FunctionExpr"}
  /\ ~frame.text.err

\* C19: in each body of the pretty-printer (BlockExpr, ForExpr, WhileExpr,
\* FunctionExpr) a nested if, for or while is rendered with the body's indent
\* plus one unit, and every line added to the body, the later lines of a
\* nested node's multi-line rendering included, starts with the body's indent
\* plus one unit.
C19_BodyLinesIndented ==
  \A i \in 1..Len(stack) :
    RendersBody(stack[i]) =>
      /\ \A k \in 1..Len(BodyLines(stack[i])) :
           StartsWith(BodyLines(stack[i])[k], stack[i].indent \o TAB)
      /\ (i < Len(stack) /\ stack[i + 1].driver \in {"IfExpr", "ForExpr", "WhileExpr"}) =>
           stack[i + 1].indent = stack[i].indent \o TAB


\* the tree call on top has raised the unsupported-value error
Unsupported(s) ==
  /\ Len(s) > 0
  /\ s[Len(s)].backend = "tree"
  /\ Thrown(s[Len(s)])
  /\ Exception(s[Len(s)]) = Error("Unsupported value type: function")

\* C20: once a conversion nested in a tree call has raised the unsupported-
\* value error, the next thing that happens is that the whole call fails with
\* that error, however many drivers enclose the conversion: none of them goes
\* on, and the top-level call (CodeGenAST.run, BlockExpr.toBabelAST) returns
\* no program and no block, partial or not.
C20_ErrorPropagates ==
  [][/\ Unsupported(stack) =>
          /\ stack' = <<>>
          /\ Len(results') = Len(results) + 1
          /\ results'[Len(results')].backend = "tree"
          /\ results'[Len(results')].raised
          /\ results'[Len(results')].tree = Error("Unsupported value type: function")
     /\ \A i \in 1..Len(results') :
          (root \in {Samples[14], Samples[15]} /\ results'[i].backend = "tree") =>
            /\ results'[i].raised
            /\ results'[i].tree = Error("Unsupported value type: function")
     /\ (root \in {Samples[14], Samples[15]} /\ Len(stack) = 3 /\ Top.backend = "tree"
         /\ Top.phase = "process") => Unsupported(stack')]_vars

\* the program whose if holds the block that declares a function value has
\* failed, after its first declaration was added to the program's body
C20_Witness ==
  /\ root = Samples[14]
  /\ stack = <<>>
  /\ Len(results) > 0
  /\ results[1].backend = "tree"
  /\ results[1].raised


\* the type variants convertTypeToTSType has a conversion for
HasConversion(type) == type.kind = "PrimitiveType"

\* C21: the tree of a TypeAliasExpr whose type, or of an InterfaceExpr one of
\* whose property types, is a variant with no conversion to a TS type is not
\* built: toBabelAST raises, and no other type is put in its place.
C21_StrictTypeBodies ==
  \A i \in 1..Len(results) :
    results[i].backend = "tree" =>
      /\ (root.kind = "TypeAliasExpr" /\ ~HasConversion(root.type)) => results[i].raised
      /\ (/\ root.kind = "InterfaceExpr"
          /\ \E k \in 1..Len(root.properties) : ~HasConversion(root.properties[k].value))
         => results[i].raised


\* the calls that consume the producer of a BlockExpr, ForExpr, WhileExpr or
\* FunctionExpr
ConsumesProducer(frame) ==
  frame.driver \in {"BlockExpr", "ForExpr", "WhileExpr", "FunctionExpr"}

\* the generator resumed until it has completed or thrown
RECURSIVE Exhausted(_)
Exhausted(gen) ==
  IF gen.state \in {"completed", "threw"} THEN gen ELSE Exhausted(GenNext(gen))

\* the values the node's producer hands over when it is started afresh and
\* run to its end
SequenceOf(node) == HandedOver(Exhausted(DriverGenerator(node)))

IsPrefix(s, t) == Len(s) <= Len(t) /\ SubSeq(t, 1, Len(s)) = s

\* a call starts with a producer that has not run: nothing of it ran when the
\* node was constructed or handed over
StartsAfresh ==
  Len(stack') > Len(stack) =>
    /\ Len(stack') = Len(stack) + 1
    /\ ConsumesProducer(stack'[Len(stack')]) =>
         /\ stack'[Len(stack')].gen.state = "suspendedStart"
         /\ stack'[Len(stack')].gen.pc = 1
         /\ stack'[Len(stack')].gen.log = <<>>

\* C22 as stated: construction runs no producer, each call starts its
\* producer from the beginning once, and every call that ends, whichever way,
\* has driven its producer to completion (a producer that threw of itself has
\* ended too).
C22_LazyRestartable ==
  [][/\ StartsAfresh
     /\ \A i \in 1..Len(stack) :
          (/\ i > Len(stack')
           /\ ConsumesProducer(stack[i])
           /\ \A j \in 1..Len(stack) : stack[j].gen.state # "threw")
          => stack[i].gen.state = "completed"]_vars

\* C22, amended: construction runs no producer; each call starts its producer
\* from the beginning, once (it only ever moves forward), and a call that
\* returns has driven it to completion, while a call that raises leaves it
\* where it stands; what a call has observed is at every moment a prefix of
\* the one sequence the node's producer yields, so that a second render that
\* returns has observed the same sequence of nodes as the first.
C22_LazyRestartableUnlessRaised ==
  [][/\ StartsAfresh
     /\ \A i \in 1..Len(stack') :
          ConsumesProducer(stack'[i]) =>
            /\ IsPrefix(HandedOver(stack'[i].gen), SequenceOf(stack'[i].node))
            /\ i <= Len(stack) =>
                 /\ stack'[i].gen.pc >= stack[i].gen.pc
                 /\ IsPrefix(stack[i].gen.log, stack'[i].gen.log)
     /\ (stack # <<>> /\ Len(stack') < Len(stack) /\ ConsumesProducer(Top)) =>
          \/ /\ ~Thrown(Top)
             /\ Top.gen.state = "completed"
             /\ HandedOver(Top.gen) = SequenceOf(Top.node)
          \/ /\ Thrown(Top)
             /\ stack' = <<>>
             /\ results'[Len(results')].raised]_vars

\* the second render of the root is about to return, its producer completed
\* after two values
C22_Witness ==
  /\ Len(results) = 1
  /\ ~results[1].raised
  /\ Len(stack) = 1
  /\ ConsumesProducer(Top)
  /\ Top.phase = "done"
  /\ Top.gen.state = "completed"
  /\ Len(HandedOver(Top.gen)) = 2


\* C23: a UnaryOpExpr renders its operator before the operand when its prefix
\* flag is set and after it when not (`!x`, `-x`, `++x`, `x++`); $.not,
\* $.negate and $.plus build prefix nodes; the tree is an update expression
\* carrying the prefix flag for `++` and `--` and a unary expression for every
\* other operator.
C23_UnaryOperators ==
  /\ root.kind = "UnaryOpExpr" =>
       \A i \in 1..Len(results) :
         /\ ~results[i].raised
         /\ results[i].backend = "text" =>
              Flat(results[i].text.t) = IF root.prefix THEN root.operator \o root.operand.name
                                        ELSE root.operand.name \o root.operator
         /\ results[i].backend = "tree" =>
              /\ results[i].tree.type = IF root.operator \in {"++", "--"}
                                        THEN "UpdateExpression" ELSE "UnaryExpression"
              /\ results[i].tree.operator = root.operator
              /\ results[i].tree.prefix = root.prefix
              /\ results[i].tree.argument = identifier(root.operand.name)
  /\ \A i \in 1..Len(results) :
       results[i].backend = "text" =>
         /\ root = not(VarRef("x", Undefined)) => Flat(results[i].text.t) = "!x"
         /\ root = negate(VarRef("x", Undefined)) => Flat(results[i].text.t) = "-x"
         /\ root = plus(VarRef("x", Undefined)) => Flat(results[i].text.t) = "+x"
         /\ root = increment(VarRef("x", Undefined), TRUE) => Flat(results[i].text.t) = "++x"
         /\ root = increment(VarRef("x", Undefined), FALSE) => Flat(results[i].text.t) = "x++"

\* both backends have rendered the postfix increment of x
C23_Witness ==
  /\ root = increment(VarRef("x", Undefined), FALSE)
  /\ Len(results) = 2
  /\ results[1].backend = "text"
  /\ results[2].backend = "tree"


\* the number of `${` the text holds
Holes(text) == Cardinality({k \in 1..Len(text.t) : text.t[k] = "${"})

\* C24: a template literal of segments s0..sN and expressions e0..e(N-1)
\* renders as a backtick, s0, ${e0}, s1, ..., sN and a backtick; whatever the
\* lengths of the two lists, the text and the tree hold the same expressions.
C24_TemplateLiteral ==
  root.kind = "TemplateLiteralExpr" =>
    /\ \A i \in 1..Len(results) :
         (results[i].backend = "text" /\ Len(root.parts) = Len(root.expressions) + 1) =>
           Flat(results[i].text.t) =
             CASE Len(root.parts) = 1 -> Backtick \o "a" \o Backtick
               [] Len(root.parts) = 2 -> Backtick \o "a${x}b" \o Backtick
               [] Len(root.parts) = 3 -> Backtick \o "a${x}b${1}c" \o Backtick
               [] OTHER -> Backtick \o "a${x}b${1}c${x}d" \o Backtick
    /\ \A i, j \in 1..Len(results) :
         (results[i].backend = "text" /\ results[j].backend = "tree") =>
           /\ ~results[i].raised
           /\ ~results[j].raised
           /\ Holes(results[i].text) = Len(results[j].tree.expressions)


\* C25: every node the builders give can be consumed by yield*: no yield* of
\* a node throws, and each one has handed exactly that node over, once, when
\* it completes.
C25_EveryNodeConsumable ==
  \A i \in 1..Len(stack) :
    /\ stack[i].gen.state = "threw" =>
         ~IsBaseExpr(Subst(stack[i].gen.fn.stmts[stack[i].gen.pc].arg, stack[i].gen.env))
    /\ \A j \in 1..Len(stack[i].gen.log) :
         (stack[i].gen.log[j].op = "yield*" /\ IsBaseExpr(stack[i].gen.log[j].arg)) =>
           stack[i].gen.log[j].yielded = <<stack[i].gen.log[j].arg>>


\* C26: a bare string s in a name position denotes the name s in both
\* backends: as the object of a MethodCallExpr, the callee of a
\* FunctionCallExpr and the source of a for-of loop, toString renders s
\* unquoted and toBabelAST gives the identifier s.
C26_BareStringIsName ==
  \A i \in 1..Len(results) :
    /\ (root.kind = "MethodCallExpr" /\ root.object.kind = "string") =>
         /\ ~results[i].raised
         /\ results[i].backend = "text" =>
              StartsWith(results[i].text.t, <<root.object.str, ".">>)
         /\ results[i].backend = "tree" =>
              results[i].tree.callee.object = identifier(root.object.str)
    /\ (root.kind = "FunctionCallExpr" /\ root.functionRef.kind = "string") =>
         /\ ~results[i].raised
         /\ results[i].backend = "text" =>
              StartsWith(results[i].text.t, <<root.functionRef.str, "(">>)
         /\ results[i].backend = "tree" =>
              results[i].tree.callee = identifier(root.functionRef.str)
    /\ (root.kind = "ForExpr" /\ root.iterable.kind = "string" /\ ~results[i].raised) =>
         /\ results[i].backend = "text" =>
              StartsWith(results[i].text.t, <<"for (const ", root.variable, " of ",
                                              root.iterable.str, ") ">>)
         /\ results[i].backend = "tree" =>
              results[i].tree.right = identifier(root.iterable.str)


\* C27: both backends emit a LetExpr as a let binding: the text starts with
\* `let <name>` and the tree is a variable declaration of kind let with one
\* declarator, whose identifier is the declared name.
C27_SameKindOfBinding ==
  \A i \in 1..Len(results) :
    (root.kind = "LetExpr" /\ ~results[i].raised) =>
      /\ results[i].backend = "text" =>
           /\ StartsWith(results[i].text.t, <<"let ", root.name>>)
           /\ results[i].text.t[Len(results[i].text.t)] = ";"
      /\ results[i].backend = "tree" =>
           /\ results[i].tree.type = "VariableDeclaration"
           /\ Len(results[i].tree.declarations) = 1
           /\ results[i].tree.declarations[1].id = identifier(root.name)
           /\ results[i].tree.kind = "let"


\* The raw values the claim is about: numbers, strings, booleans, and the
\* plain objects and arrays made of them
RECURSIVE IsPlainData(_)
IsPlainData(value) ==
  CASE value.kind \in {"number", "string", "boolean"} -> TRUE
    [] value.kind = "object" ->
         \A i \in 1..Len(value.entries) : IsPlainData(value.entries[i].value)
    [] value.kind = "array" -> \A i \in 1..Len(value.items) : IsPlainData(value.items[i])
    [] OTHER -> FALSE

\* The literal of a raw value: the matching literal, an object literal with the
\* keys in insertion order, an array literal with the elements in order
RECURSIVE LiteralOf(_)
LiteralOf(value) ==
  CASE value.kind = "number" -> numericLiteral(value.num)
    [] value.kind = "string" -> stringLiteral(value.str)
    [] value.kind = "boolean" -> booleanLiteral(value.bool)
    [] value.kind = "object" ->
         objectExpression([i \in 1..Len(value.entries) |->
           objectProperty(identifier(value.entries[i].key),
                          LiteralOf(value.entries[i].value))])
    [] value.kind = "array" ->
         arrayExpression([i \in 1..Len(value.items) |-> LiteralOf(value.items[i])])

\* The tokens of a rendered binding between its ` = ` and its final `;`
RECURSIVE AfterEquals(_)
AfterEquals(tokens) ==
  IF tokens = <<>> THEN <<>>
  ELSE IF Head(tokens) = " = " THEN SubSeq(tokens, 2, Len(tokens) - 1)
  ELSE AfterEquals(Tail(tokens))

\* The rendered initializer is a literal of the kind of the raw value
IsLiteralText(value, tokens) ==
  CASE value.kind = "number" -> tokens = <<ToString(value.num)>>
    [] value.kind = "string" -> tokens = <<"\"" \o value.str \o "\"">>
    [] value.kind = "boolean" -> tokens = <<BoolText(value.bool)>>
    [] value.kind = "object" ->
         /\ Len(tokens) >= 2 /\ tokens[1] = "{" /\ tokens[Len(tokens)] = "}"
         /\ \A i \in 1..Len(value.entries) :
              \E j \in 1..Len(tokens) : tokens[j] = "\"" \o value.entries[i].key \o "\""
    [] value.kind = "array" ->
         /\ Len(tokens) >= 2 /\ tokens[1] = "[" /\ tokens[Len(tokens)] = "]"

\* C28: a LetExpr whose initializer is a raw number, string, boolean, plain
\* object or array renders, in both backends, the same kind of literal: the
\* matching literal, an object literal with the same keys in insertion order,
\* an array literal with the same elements in order.
C28_RawInitializerLiteral ==
  \A i \in 1..Len(results) :
    (root.kind = "LetExpr" /\ ~IsBaseExpr(root.value) /\ IsPlainData(root.value)) =>
      /\ ~results[i].raised
      /\ results[i].backend = "text" =>
           IsLiteralText(root.value, AfterEquals(results[i].text.t))
      /\ results[i].backend = "tree" =>
           results[i].tree.declarations[1].init = LiteralOf(root.value)


\* The variable a loop binds: the variable of a for-of or a for-in, the
\* variable the initializer of a counted loop declares
BoundVariable(node) ==
  IF node.type \in {"for-of", "for-in"} THEN node.variable ELSE node.init.name

HasBoundVariable(node) ==
  \/ node.type \in {"for-of", "for-in"}
  \/ IsBaseExpr(node.init) /\ node.init.kind = "LetExpr"

\* C29: under either backend, the reference a loop built by $.forOf, $.forIn or
\* $.for passes to its body producer is an untyped VarRef named as the variable
\* the loop binds.
C29_LoopVarIsBoundVariable ==
  \A i \in 1..Len(stack) :
    (/\ stack[i].driver = "ForExpr"
     /\ stack[i].node.body.param # ""
     /\ HasBoundVariable(stack[i].node)) =>
      stack[i].gen.env[stack[i].node.body.param]
        = VarRef(BoundVariable(stack[i].node), Undefined)


\* The text of a value handed over to CodeGen: a node's toString(), String(value)
\* of any other value
TextOf(value) == IF IsBaseExpr(value) THEN toString(value, <<>>) ELSE StringOf(value)

\* C30: CodeGen(write).run() returns the texts of the values its producer
\* handed over, concatenated in hand-over order with nothing before, between
\* or after them (the empty string when nothing was handed over), each value
\* taken once.
C30_RunConcatenates ==
  \A i \in Done("CodeGen", "text") :
    LET values == HandedOver(stack[i].gen)
    IN Final(stack[i]) = CatAll([j \in 1..Len(values) |-> TextOf(values[j])])

\* run() is about to return after its producer handed over a node and a value
\* that is no node
C30_Witness ==
  \E i \in Done("CodeGen", "text") :
    LET values == HandedOver(stack[i].gen)
    IN /\ Len(values) = 2
       /\ \E j \in 1..2 : IsBaseExpr(values[j])
       /\ \E j \in 1..2 : ~IsBaseExpr(values[j])
       /\ Final(stack[i]).t # <<>>

\* run() is about to return the empty string: its producer handed over nothing
C30_WitnessEmpty ==
  \E i \in Done("CodeGen", "text") :
    HandedOver(stack[i].gen) = <<>> /\ Final(stack[i]) = T(<<>>)

====
